---------------------------- MODULE Spec2Model ----------------------------
(***************************************************************************)
(* A model of loopy/tools.py: the persistent tree (Tree), the structural   *)
(* key builder (LoopyKeyBuilder), the equality-key builder                 *)
(* (LoopyEqKeyBuilder), the lazily unpickling containers and the           *)
(* memoize_on_disk decorator; and of loopy/auto_test.py: auto_test_vs_ref  *)
(* with make_ref_args and make_args.  Every component has its own          *)
(* specification (SpecTree, SpecHash, SpecEqKey, SpecEqFields, SpecLazy,   *)
(* SpecAug, SpecRace, SpecMemo, SpecCache, SpecOpt, SpecAutoRef,           *)
(* SpecAutoTest); the variables of the other components stay at their      *)
(* idle values.                                                            *)
(***************************************************************************)
EXTENDS Integers, Sequences, FiniteSets, TLC

VARIABLES
    tree,        \* Tree: the current Tree value [p2c, c2p]
    treeCall,    \* Tree: the last mutator call, its receiver and its outcome
    receiver,    \* Tree: the receiver of the last call, as it is after it
    nops,        \* Tree: the number of mutator calls made
    ha, hb,      \* key builder: the two values handed to the key builder
    hda, hdb,    \* key builder: their digests (<<>> before hashing)
    hpc,         \* key builder: "built" or "hashed"
    builders,    \* eq key builder: the LoopyEqKeyBuilder instances
    lzkind,      \* lazy container: "dict", "list" or "aug" (the class)
    lzmap,       \* lazy container: LazilyUnpicklingDict._map
    lzlist,      \* lazy container: LazilyUnpicklingList._list
    lzret,       \* lazy container: the last call and what it returned
    augS,        \* augmented list S: its _list
    augT,        \* the other operand T: [kind, list]
    augret,      \* augmented list: the last == or hashing call and its result
    optx, opty,  \* Optional: two Optional objects [has_value, _value]
    optargs,     \* Optional: what the two were constructed with
    optret,      \* Optional: the last call and what it answered
    caches,      \* registry: tools.caches, the list of registered stores
    wrappers,    \* registry: the wrappers made, each with its store
    objects,     \* registry: per store object its in-memory layer
    disk,        \* registry: per store namespace the entries on disk
    cacheret,    \* registry: the last call and what it did
    DATA_MODEL_VERSION,  \* registry: loopy.version.DATA_MODEL_VERSION
    CACHING_ENABLED,  \* loopy.CACHING_ENABLED
    func,             \* the decorated function: does it take **kwargs
    transform_cache,  \* the write-once store: key digest -> stored result
    calls,            \* per caller: the wrapper call in progress
    completed,        \* history: the non-bypassed calls that returned
    ncalls,           \* history: the number of wrapper calls made
    shkind,      \* shared lazy container: "dict" or "list" (the class)
    shslots,     \* shared lazy container: its _map / _list
    readers,     \* per reading thread: where it is in __getitem__
    written,     \* the third party's writes: slot -> the value last written
    cl_devices,        \* auto test: the (platform, device) pairs of the host
    impl_arg_info,     \* auto test: the implementation arguments
    warmup_rounds,     \* auto test: the warmup_rounds argument
    do_check,          \* auto test: the do_check argument
    AUTO_TEST_SKIP_RUN,  \* auto test: the module flag
    test_kernels,      \* auto test: the number of test kernels to run
    at                 \* auto test: the frame of the auto_test_vs_ref call

treeVars == <<tree, treeCall, receiver, nops>>

hashVars == <<ha, hb, hda, hdb, hpc>>

eqVars == <<builders>>

lazyVars == <<lzkind, lzmap, lzlist, lzret>>

augVars == <<augS, augT, augret>>

optVars == <<optx, opty, optargs, optret>>

cacheVars ==
    <<caches, wrappers, objects, disk, cacheret, DATA_MODEL_VERSION>>

memoVars ==
    <<CACHING_ENABLED, func, transform_cache, calls, completed, ncalls>>

raceVars == <<shkind, shslots, readers, written>>

autoVars ==
    <<cl_devices, impl_arg_info, warmup_rounds, do_check, AUTO_TEST_SKIP_RUN,
      test_kernels, at>>

vars ==
    <<treeVars, hashVars, eqVars, lazyVars, augVars, memoVars, optVars,
      cacheVars, raceVars, autoVars>>

\* What each component leaves alone.
nonTreeVars == <<hashVars, eqVars, lazyVars, augVars, memoVars, optVars,
      cacheVars, raceVars, autoVars>>

nonHashVars == <<treeVars, eqVars, lazyVars, augVars, memoVars, optVars,
      cacheVars, raceVars, autoVars>>

nonEqVars == <<treeVars, hashVars, lazyVars, augVars, memoVars, optVars,
      cacheVars, raceVars, autoVars>>

nonLazyVars == <<treeVars, hashVars, eqVars, augVars, memoVars, optVars,
      cacheVars, raceVars, autoVars>>

nonMemoVars == <<treeVars, hashVars, eqVars, lazyVars, augVars, optVars,
      cacheVars, raceVars, autoVars>>

nonOptVars == <<treeVars, hashVars, eqVars, lazyVars, augVars, memoVars,
      cacheVars, raceVars, autoVars>>

nonCacheVars ==
    <<treeVars, hashVars, eqVars, lazyVars, augVars, optVars, raceVars,
      autoVars>>

nonRaceVars ==
    <<treeVars, hashVars, eqVars, lazyVars, augVars, memoVars, optVars,
      cacheVars, autoVars>>

nonAutoVars ==
    <<treeVars, hashVars, eqVars, lazyVars, augVars, memoVars, optVars,
      cacheVars, raceVars>>

nonAugVars == <<treeVars, hashVars, eqVars, lazyVars, memoVars, optVars,
      cacheVars, raceVars, autoVars>>

(***************************************************************************)
(* Values and the structural key builder (LoopyKeyBuilder, tools.py 63-90, *)
(* on pytools.persistent_dict.KeyBuilder)                                  *)
(***************************************************************************)

\* Python's None: as the parent of the tree's root; never a node identifier.
None == 0

\* What a query answers: a value, or the exception it raises.
Answer(val) == [ok |-> TRUE, exc |-> "", val |-> val]

Raises(exc) == [ok |-> FALSE, exc |-> exc, val |-> None]

\* Bound: containers hold at most MaxLen elements.
MaxLen == 2

\* A Python value: an atom [tag, v] or a container [tag, items].  A set or
\* a mapping keeps its items in iteration (insertion) order, which carries
\* no meaning; a mapping's items are <<key, value>> pairs.
Atom(tag, v) == [tag |-> tag, v |-> v, items |-> <<>>]

Container(tag, items) == [tag |-> tag, v |-> 0, items |-> items]

\* A domain object: items are the values of its hash_fields in declared
\* order, v stands for every attribute outside hash_fields.
DomainObject(fields, other) == [tag |-> "object", v |-> other, items |-> fields]

\* A str holding a hex digest (the characters are the digest's tokens).
DigestStr(digest) == [tag |-> "digeststr", v |-> 0, items |-> digest]

AtomTags == {"int", "str", "float", "bytes", "bool", "NoneType"}

OrderedTags == {"tuple", "list"}

SetTags == {"set", "frozenset"}

MappingTags == {"dict", "defaultdict", "PMap", "Map"}

\* type(key).__name__: immutables.Map, islpy.Map and any other class named
\* Map all dispatch to update_for_Map.
TypeName(key) ==
    IF key.tag \in {"Map", "islMap", "otherMap"} THEN "Map" ELSE key.tag

\* Tokens of the byte stream fed to the hash.  A digest is modelled as the
\* framed stream it is the hash of (the hash taken as injective).
DigestOpen == 0

DigestClose == 1

ErrorToken == 2

\* The message of an exception raised without arguments.
NoMessage == 3

TypeToken(tag) ==
    CASE tag = "int" -> 10 [] tag = "str" -> 11 [] tag = "float" -> 12
      [] tag = "bytes" -> 13 [] tag = "bool" -> 14 [] tag = "NoneType" -> 15
      [] OTHER -> 19

ValueToken(v) == 20 + v

RECURSIVE Concat(_)
Concat(ss) == IF ss = <<>> THEN <<>> ELSE Head(ss) \o Concat(Tail(ss))

RECURSIVE SeqLess(_, _)
\* bytes.__lt__: lexicographic order
SeqLess(a, b) ==
    IF a = <<>> THEN b # <<>>
    ELSE IF b = <<>> THEN FALSE
    ELSE IF Head(a) # Head(b) THEN Head(a) < Head(b)
    ELSE SeqLess(Tail(a), Tail(b))

RECURSIVE InsertSorted(_, _)
InsertSorted(d, ds) ==
    IF ds = <<>> THEN <<d>>
    ELSE IF SeqLess(Head(ds), d) THEN <<Head(ds)>> \o InsertSorted(d, Tail(ds))
    ELSE <<d>> \o ds

RECURSIVE Sorted(_)
Sorted(ds) == IF ds = <<>> THEN <<>> ELSE InsertSorted(Head(ds), Sorted(Tail(ds)))

\* hashlib digest of a stream
Hashed(stream) == <<DigestOpen>> \o stream \o <<DigestClose>>

IsError(stream) == \E i \in 1..Len(stream) : stream[i] = ErrorToken

\* An exception in flight: the error token and the type its message names
\* (NoMessage when the exception was raised without a message).
RaisedError(message) == <<ErrorToken, message>>

\* The exception that left the first failing call of a stream of calls.
FirstError(stream) ==
    LET i == CHOOSE k \in 1..Len(stream) :
                 /\ stream[k] = ErrorToken
                 /\ \A j \in 1..(k - 1) : stream[j] # ErrorToken
    IN  IF i < Len(stream) THEN SubSeq(stream, i, i + 1)
        ELSE RaisedError(NoMessage)

RECURSIVE rec(_)

\* KeyBuilder.update_for_<scalar>: the type tag and the exact value
update_for_atom(key) == <<TypeToken(key.tag), ValueToken(key.v)>>

\* KeyBuilder.update_for_str on a hex digest
update_for_digeststr(key) == <<TypeToken("str")>> \o key.items

\* A hash over every attribute of the object, hash_fields or not.
update_persistent_hash_of_all_attributes(obj) ==
    Concat([i \in 1..Len(obj.items) |-> rec(obj.items[i])])
        \o rec(Atom("int", obj.v))

\* tools.update_persistent_hash: the hash_fields values in declared order
update_persistent_hash(obj) ==
    Concat([i \in 1..Len(obj.items) |-> rec(obj.items[i])])

\* An Optional feeding the bare value, or () when there is none.
Optional_update_persistent_hash_bare(opt) ==
    IF opt.items = <<>> THEN rec(Container("tuple", <<>>))
    ELSE rec(opt.items[1])

\* Optional.update_persistent_hash:
\* key_builder.rec(key_hash, (self._value,) if self.has_value else ())
Optional_update_persistent_hash(opt) == rec(Container("tuple", opt.items))

\* KeyBuilder.update_for_tuple: the element digests in order
update_for_tuple(key) == Concat([i \in 1..Len(key.items) |-> rec(key.items[i])])

\* KeyBuilder.update_for_frozenset: the element digests, sorted
update_for_frozenset(key) ==
    Concat(Sorted([i \in 1..Len(key.items) |-> rec(key.items[i])]))

\* KeyBuilder.update_for_immutabledict: the (key, value) item digests, sorted
update_for_immutabledict(key) ==
    Concat(Sorted([i \in 1..Len(key.items) |->
                      rec(Container("tuple", key.items[i]))]))

update_for_list(key) == update_for_tuple(key)

update_for_set(key) == update_for_frozenset(key)

\* Hashing a mapping's items in iteration order, as for a tuple.
update_for_dict_in_iteration_order(key) ==
    Concat([i \in 1..Len(key.items) |-> rec(Container("tuple", key.items[i]))])

update_for_dict(key) == update_for_immutabledict(key)

update_for_defaultdict(key) == update_for_immutabledict(key)

\* islpy Printer output of the object, utf8-encoded; v names the printed text
update_for_BasicSet(key) == <<TypeToken("isl"), ValueToken(key.v)>>

\* LoopyKeyBuilder.update_for_Map: an immutables.Map as a dict, an isl.Map
\* as an isl object, anything else: raise AssertionError()
update_for_Map(key) ==
    IF key.tag = "Map" THEN update_for_dict(key)
    ELSE IF key.tag = "islMap" THEN update_for_BasicSet(key)
    ELSE RaisedError(NoMessage)

update_for_PMap(key) == update_for_dict(key)

\* KeyBuilder.rec: dispatch on the type name, hash the value's stream in a
\* hash of its own and feed that digest to the caller's hash.
rec(key) ==
    LET tname == TypeName(key)
        stream ==
            CASE tname = "object" -> update_persistent_hash(key)
              [] tname = "Optional" -> Optional_update_persistent_hash(key)
              [] tname = "digeststr" -> update_for_digeststr(key)
              [] tname \in AtomTags -> update_for_atom(key)
              [] tname = "tuple" -> update_for_tuple(key)
              [] tname = "list" -> update_for_list(key)
              [] tname = "frozenset" -> update_for_frozenset(key)
              [] tname = "set" -> update_for_set(key)
              [] tname = "dict" -> update_for_dict(key)
              [] tname = "defaultdict" -> update_for_defaultdict(key)
              [] tname = "PMap" -> update_for_PMap(key)
              [] tname = "Map" -> update_for_Map(key)
              [] tname = "BasicSet" -> update_for_BasicSet(key)
              [] OTHER -> RaisedError(TypeToken(tname))
    IN  IF IsError(stream) THEN FirstError(stream) ELSE Hashed(stream)

\* KeyBuilder.__call__: the hex digest of the hash the key was fed to
LoopyKeyBuilder(key) ==
    IF IsError(rec(key)) THEN FirstError(rec(key)) ELSE Hashed(rec(key))

RECURSIVE StructEq(_, _)
\* Structural equality: same type, equal elements; the iteration order of
\* sets and mappings does not count.
StructEq(a, b) ==
    /\ a.tag = b.tag
    /\ Len(a.items) = Len(b.items)
    /\ CASE a.tag \in SetTags ->
              \A i \in 1..Len(a.items) : \E j \in 1..Len(b.items) :
                  StructEq(a.items[i], b.items[j])
         [] a.tag \in MappingTags ->
              \A i \in 1..Len(a.items) : \E j \in 1..Len(b.items) :
                  /\ StructEq(a.items[i][1], b.items[j][1])
                  /\ StructEq(a.items[i][2], b.items[j][2])
         [] a.tag \in OrderedTags ->
              \A i \in 1..Len(a.items) : StructEq(a.items[i], b.items[i])
         [] a.tag = "object" ->
              /\ a.v = b.v
              /\ \A i \in 1..Len(a.items) : StructEq(a.items[i], b.items[i])
         [] OTHER -> a.v = b.v

\* Sequences of at most n distinct elements of S.
DistinctSeqs(S, n) ==
    {s \in UNION {[1..k -> S] : k \in 0..n} :
        \A i, j \in 1..Len(s) : i # j => s[i] # s[j]}

Seqs(S, n) == UNION {[1..k -> S] : k \in 0..n}

HashAtoms == {Atom("int", 1), Atom("int", 2), Atom("str", 1)}

\* What a domain object holds outside hash_fields (a cache: unset or set).
OtherAttributes == {0, 1}

\* Values of mappings: an atom, or a set given in either iteration order.
HashDictValues ==
    {Atom("int", 1),
     Container("frozenset", <<Atom("int", 1), Atom("int", 2)>>),
     Container("frozenset", <<Atom("int", 2), Atom("int", 1)>>)}

ValuesOfTag(tag) ==
    CASE tag \in SetTags ->
           {Container(tag, s) : s \in DistinctSeqs(HashAtoms, MaxLen)}
      [] tag \in OrderedTags ->
           {Container(tag, s) : s \in Seqs(HashAtoms, MaxLen)}
      [] tag \in MappingTags ->
           {Container(tag, s) :
               s \in {m \in Seqs(HashAtoms \X HashDictValues, MaxLen) :
                         \A i, j \in 1..Len(m) : i # j => m[i][1] # m[j][1]}}
      [] tag = "object" ->
           {DomainObject(s, other) :
               s \in Seqs(HashAtoms, MaxLen), other \in OtherAttributes}
      [] tag = "islMap" -> {Atom("islMap", v) : v \in 1..MaxLen}
      [] tag = "otherMap" ->
           {Container("otherMap", s) :
               s \in {m \in Seqs(HashAtoms \X HashAtoms, MaxLen) :
                         \A i, j \in 1..Len(m) : i # j => m[i][1] # m[j][1]}}
      [] OTHER -> HashAtoms

\* Values of a class the key builder has a method for.
Recognized(key) == key.tag # "otherMap"

\* A tuple with one element of a class named Map that is neither
\* immutables.Map nor isl.Map.
WithUnrecognized ==
    {Container("tuple", <<a, Container("otherMap", <<>>)>>) : a \in HashAtoms}

HashTags == SetTags \cup OrderedTags \cup MappingTags \cup {"int", "object"}

HashIdle ==
    /\ ha = Atom("int", 1) /\ hb = Atom("int", 1)
    /\ hda = <<>> /\ hdb = <<>> /\ hpc = "idle"

\* Two values of one type, built independently.
HashInit ==
    /\ \/ \E tag \in HashTags \cup {"islMap", "otherMap"} :
              \E a \in ValuesOfTag(tag), b \in ValuesOfTag(tag) :
                  ha = a /\ hb = b
       \/ \E a \in WithUnrecognized, b \in ValuesOfTag("tuple") :
              ha = a /\ hb = b
    /\ hda = <<>> /\ hdb = <<>> /\ hpc = "built"

HashBoth ==
    /\ hpc = "built"
    /\ hda' = LoopyKeyBuilder(ha)
    /\ hdb' = LoopyKeyBuilder(hb)
    /\ hpc' = "hashed"
    /\ UNCHANGED <<ha, hb>>
    /\ UNCHANGED nonHashVars

\* C4: structurally equal values have equal digests; in particular two sets
\* or two mappings with the same elements in different insertion orders.
C4_EqualValuesEqualDigests ==
    (/\ hpc = "hashed" /\ StructEq(ha, hb)
     /\ Recognized(ha) /\ ha \notin WithUnrecognized)
    => (hda = hdb /\ ~IsError(hda))

\* C17: the digest of a domain object depends only on the values of its
\* hash_fields in declared order: two objects with the same values there
\* have the same digest, whatever their other attributes hold.
C17_DigestOfSignificantFieldsOnly ==
    (/\ hpc = "hashed" /\ ha.tag = "object" /\ hb.tag = "object"
     /\ Len(ha.items) = Len(hb.items)
     /\ \A i \in 1..Len(ha.items) : StructEq(ha.items[i], hb.items[i]))
    => (hda = hdb /\ ~IsError(hda))

\* C17 witness: two objects with the same two field values and different
\* other attributes were hashed to one digest.
C17_Witness ==
    /\ hpc = "hashed" /\ ha.tag = "object" /\ hb.tag = "object"
    /\ ha.items = hb.items /\ Len(ha.items) = 2 /\ ha.v # hb.v
    /\ hda = hdb

\* C24: a value of a class named Map that is neither immutables.Map nor
\* isl.Map, alone or inside a tuple, makes the hashing call fail: no digest
\* is returned, and the error names the offending type.
C24_UnrecognizedFailsNamingType ==
    (hpc = "hashed" /\ (~Recognized(ha) \/ ha \in WithUnrecognized))
    => (/\ IsError(hda) /\ Len(hda) = 2 /\ hda[1] = ErrorToken
        /\ hda[2] # NoMessage)

\* Two PMaps with the same items inserted in different orders, one of the
\* values a set given in two iteration orders, have been hashed.
C4_Witness ==
    /\ hpc = "hashed" /\ ha.tag = "PMap" /\ Len(ha.items) = 2
    /\ StructEq(ha, hb) /\ hda = hdb
    /\ ha.items[1] = hb.items[2] /\ ha.items[1][1] # ha.items[2][1]
    /\ ha.items[2][2].tag = "frozenset" /\ ha.items[2][2] # hb.items[1][2]


(***************************************************************************)
(* Equality-key builder (LoopyEqKeyBuilder, tools.py 97-144)               *)
(***************************************************************************)

\* Bound: field names are 1..MaxFields (sorted() orders them as numbers).
MaxFields == 2

FieldNames == 1..MaxFields

FieldValues == {Atom("int", 1), Atom("int", 2)}

\* Classes: id is the class object, name its __name__; two classes of
\* different modules may share a __name__.
Classes == {[id |-> 1, name |-> 1], [id |-> 2, name |-> 1], [id |-> 3, name |-> 2]}

NoClass == [id |-> 0, name |-> 0]

BuilderIds == {"A", "B"}

\* __init__: an empty field_dict, no class_ attribute, nothing memoized.
\* field_dict is held as a function, and order is the order in which its
\* keys were inserted (the iteration order of the dict).
NewBuilder ==
    [class_ |-> NoClass, field_dict |-> <<>>, order |-> <<>>, memo |-> <<>>]

\* dict.__setitem__ on a dict held as a function
DictSet(d, k, v) == [x \in (DOMAIN d) \cup {k} |-> IF x = k THEN v ELSE d[x]]

update_for_class(b, c) == [b EXCEPT !.class_ = c]

update_for_field(b, name, value) ==
    [b EXCEPT !.field_dict = DictSet(b.field_dict, name, value),
              !.order = IF name \in DOMAIN b.field_dict THEN b.order
                        ELSE Append(b.order, name)]

\* key(): (class name bytes, field_dict); dicts compare by content.
key(b) == <<Atom("bytes", b.class_.name), b.field_dict>>

RECURSIVE SortedNames(_)
\* sorted(self.field_dict.keys())
SortedNames(S) ==
    IF S = {} THEN <<>>
    ELSE LET m == CHOOSE x \in S : \A y \in S : x <= y
         IN  <<m>> \o SortedNames(S \ {m})

\* The field names as the dict iterates over them.
field_names_in_insertion_order(b) == b.order

\* sorted(self.field_dict.keys()), line 141
sorted_field_names(b) == SortedNames(DOMAIN b.field_dict)

\* The body of hash_key: the class name and the field values ordered by
\* field name, through a LoopyKeyBuilder.
compute_hash_key(b) ==
    LET names == sorted_field_names(b)
    IN  LoopyKeyBuilder(Container("tuple",
            <<Atom("bytes", b.class_.name)>>
            \o [i \in 1..Len(names) |-> b.field_dict[names[i]]]))

\* @memoize_method: the first result is kept on the instance.
hash_key(b) == IF b.memo # <<>> THEN b.memo ELSE compute_hash_key(b)

EqIdle == builders = [x \in BuilderIds |-> NewBuilder]

EqInit == builders = [x \in BuilderIds |-> NewBuilder]

UpdateForClass ==
    \E x \in BuilderIds, c \in Classes :
        /\ builders' = [builders EXCEPT ![x] = update_for_class(@, c)]
        /\ UNCHANGED nonEqVars

UpdateForField ==
    \E x \in BuilderIds, n \in FieldNames, v \in FieldValues :
        /\ builders' = [builders EXCEPT ![x] = update_for_field(@, n, v)]
        /\ UNCHANGED nonEqVars

\* key() reads only; without class_ it raises AttributeError.
Key ==
    \E x \in BuilderIds :
        /\ builders[x].class_ # NoClass
        /\ UNCHANGED vars

\* hash_key() memoizes its first result; without class_ it raises.
HashKey ==
    \E x \in BuilderIds :
        /\ builders[x].class_ # NoClass
        /\ builders' = [builders EXCEPT ![x].memo = hash_key(builders[x])]
        /\ UNCHANGED nonEqVars

EqNext == UpdateForClass \/ UpdateForField \/ Key \/ HashKey

\* The usage the class documents: update_for_class, then the
\* update_for_field calls in any order, then key() and hash_key().
EqFieldsInit ==
    builders \in [BuilderIds -> {update_for_class(NewBuilder, c) : c \in Classes}]

UpdateForFieldBeforeHashKey ==
    \E x \in BuilderIds, n \in FieldNames, v \in FieldValues :
        /\ builders[x].memo = <<>>
        /\ builders' = [builders EXCEPT ![x] = update_for_field(@, n, v)]
        /\ UNCHANGED nonEqVars

EqFieldsNext == UpdateForFieldBeforeHashKey \/ HashKey

\* C18: two builders have equal key() iff they recorded the same class and
\* hold the same field names with equal values; builders of two different
\* classes never have equal keys.  (Violated: key() holds the class's
\* __name__ only, which two different classes can share.)
C18_EqualKeysIffSameClassAndFields ==
    \A x \in BuilderIds, y \in BuilderIds :
        (builders[x].class_ # NoClass /\ builders[y].class_ # NoClass) =>
            ((key(builders[x]) = key(builders[y])) <=>
                 (/\ builders[x].class_.id = builders[y].class_.id
                  /\ builders[x].field_dict = builders[y].field_dict))

\* hash_key() has not been called, or not before the last update.
FreshHashKey(b) == b.memo = <<>> \/ b.memo = compute_hash_key(b)

\* The field values in the order of the sorted field names.
ValuesByName(b) ==
    [i \in 1..Len(b.order) |-> b.field_dict[SortedNames(DOMAIN b.field_dict)[i]]]

C5_EqualKeysEqualHashKeys ==
    \A x \in BuilderIds, y \in BuilderIds :
        (/\ builders[x].class_ # NoClass /\ builders[y].class_ # NoClass
         /\ key(builders[x]) = key(builders[y]))
        => hash_key(builders[x]) = hash_key(builders[y])

(***************************************************************************)
(* Lazily unpickling containers (tools.py 323-506)                         *)
(***************************************************************************)

\* Bound: a container holds at most MaxSlots elements (keys 1..MaxSlots).
MaxSlots == 2

\* Element values (the objects stored in the containers).
ElemVals == {1, 2}

NoVal == 0

NoKey == <<>>

\* pickle: a PROTO opcode, the protocol, the payload and STOP.  dumps
\* writes the default protocol; stored strings may be of an older one.
PickleProto == 128

PickleStop == 46

DefaultProtocol == 4

OlderProtocol == 3

dumps(v) == <<PickleProto, DefaultProtocol, v, PickleStop>>

loads(objstring) == objstring[3]

ObjStrings == {<<PickleProto, p, v, PickleStop>> :
                  p \in {OlderProtocol, DefaultProtocol}, v \in ElemVals}

\* The element of class 1 with field 1 = v, as its eq key builder sees it.
ElementBuilder(v) ==
    update_for_field(update_for_class(NewBuilder, [id |-> 1, name |-> 1]),
                     1, Atom("int", v))

\* The caller-supplied getters of the augmented list, as loopy passes them:
\* the element's eq key and hash key.
eq_key_getter(v) == key(ElementBuilder(v))

persistent_hash_key_getter(v) == hash_key(ElementBuilder(v))

\* A slot of _map / _list.  pickled: the slot holds a _PickledObject with
\* objstring (with_keys: a _PickledObjectWithEqAndPersistentHashKeys);
\* otherwise it holds the object val.  n counts the unpickle() calls that
\* produced the slot's content, and a materialized slot keeps the objstring
\* it came from: both are history, not program state.
Pickled(objstring) ==
    [pickled |-> TRUE, with_keys |-> FALSE, objstring |-> objstring,
     val |-> NoVal, n |-> 0, eq_key |-> NoKey, persistent_hash_key |-> NoKey]

PickledWithKeys(objstring, eq_key, persistent_hash_key) ==
    [pickled |-> TRUE, with_keys |-> TRUE, objstring |-> objstring,
     val |-> NoVal, n |-> 0, eq_key |-> eq_key,
     persistent_hash_key |-> persistent_hash_key]

Object(v) ==
    [pickled |-> FALSE, with_keys |-> FALSE, objstring |-> <<>>,
     val |-> v, n |-> 0, eq_key |-> NoKey, persistent_hash_key |-> NoKey]

\* _PickledObject.unpickle() on a slot's wrapper: the object it yields
unpickle(slot) ==
    [pickled |-> FALSE, with_keys |-> FALSE, objstring |-> slot.objstring,
     val |-> loads(slot.objstring), n |-> slot.n + 1,
     eq_key |-> NoKey, persistent_hash_key |-> NoKey]

\* _PickledObject.__init__ with a wrapper re-pickled through unpickle().
PickledObject_by_reserializing(obj) ==
    IF obj.pickled THEN Pickled(dumps(loads(obj.objstring)))
    ELSE Pickled(dumps(obj.val))

\* _PickledObject.__init__(obj): a wrapper's objstring is taken over, any
\* other object is pickled.
PickledObject(obj) ==
    IF obj.pickled THEN Pickled(obj.objstring) ELSE Pickled(dumps(obj.val))

\* LazilyUnpicklingListWithEqAndPersistentHashing._get_eq_key
get_eq_key(obj) ==
    IF obj.pickled /\ obj.with_keys THEN obj.eq_key
    ELSE IF obj.pickled THEN NoKey
    ELSE eq_key_getter(obj.val)

\* LazilyUnpicklingListWithEqAndPersistentHashing._get_persistent_hash_key
get_persistent_hash_key(obj) ==
    IF obj.pickled /\ obj.with_keys THEN obj.persistent_hash_key
    ELSE IF obj.pickled THEN NoKey
    ELSE persistent_hash_key_getter(obj.val)

PickledObjectWithEqAndPersistentHashKeys(obj, eq_key, persistent_hash_key) ==
    PickledWithKeys(PickledObject(obj).objstring, eq_key, persistent_hash_key)

\* What a call returns: a value (val, and gen: which unpickle() produced the
\* instance, 0 for an object the caller stored) or an exception.
NoRet ==
    [op |-> "init", key |-> 0, ok |-> TRUE, val |-> NoVal, gen |-> 0,
     again |-> FALSE, before |-> <<>>, out |-> <<>>,
     written |-> NoVal, wrote_over |-> "none"]

\* A read that leaves the wrapper in the slot.
List_getitem_without_store(list, i) ==
    IF i \notin 1..Len(list) THEN [cont |-> list, ok |-> FALSE, item |-> Object(NoVal)]
    ELSE IF list[i].pickled
         THEN [cont |-> [list EXCEPT ![i].n = @ + 1], ok |-> TRUE,
               item |-> unpickle(list[i])]
         ELSE [cont |-> list, ok |-> TRUE, item |-> list[i]]

\* LazilyUnpicklingList.__getitem__ (integer index)
List_getitem(list, i) ==
    IF i \notin 1..Len(list) THEN [cont |-> list, ok |-> FALSE, item |-> Object(NoVal)]
    ELSE IF list[i].pickled
         THEN [cont |-> [list EXCEPT ![i] = unpickle(list[i])], ok |-> TRUE,
               item |-> unpickle(list[i])]
         ELSE [cont |-> list, ok |-> TRUE, item |-> list[i]]

\* LazilyUnpicklingDict.__getitem__
Dict_getitem(map, k) ==
    IF k \notin DOMAIN map THEN [cont |-> map, ok |-> FALSE, item |-> Object(NoVal)]
    ELSE IF map[k].pickled
         THEN [cont |-> [map EXCEPT ![k] = unpickle(map[k])], ok |-> TRUE,
               item |-> unpickle(map[k])]
         ELSE [cont |-> map, ok |-> TRUE, item |-> map[k]]

\* LazilyUnpicklingDict.__getstate__ / LazilyUnpicklingList.__getstate__
Dict_getstate(map) == [k \in DOMAIN map |-> PickledObject(map[k])]

List_getstate(list) == [i \in 1..Len(list) |-> PickledObject(list[i])]

\* LazilyUnpicklingListWithEqAndPersistentHashing.__getstate__
Aug_getstate(list) ==
    [i \in 1..Len(list) |->
        PickledObjectWithEqAndPersistentHashKeys(
            list[i], get_eq_key(list[i]), get_persistent_hash_key(list[i]))]

\* list.insert and del list[i]
ListInsert(list, i, x) ==
    [j \in 1..Len(list) + 1 |->
        IF j < i THEN list[j] ELSE IF j = i THEN x ELSE list[j - 1]]

ListDelete(list, i) ==
    [j \in 1..Len(list) - 1 |-> IF j < i THEN list[j] ELSE list[j + 1]]

IsListKind == lzkind \in {"list", "aug"}

LazyIdle ==
    /\ lzkind = "none" /\ lzmap = <<>> /\ lzlist = <<>> /\ lzret = NoRet

\* A container built from objects, or restored from a pickled state stored
\* earlier (every slot a wrapper).
LazyInit ==
    /\ lzret = NoRet
    /\ \/ /\ lzkind = "dict" /\ lzlist = <<>>
          /\ \E ks \in SUBSET (1..MaxSlots) :
                \/ lzmap \in [ks -> {Object(v) : v \in ElemVals}]
                \/ lzmap \in [ks -> {Pickled(s) : s \in ObjStrings}]
       \/ /\ lzkind = "list" /\ lzmap = <<>>
          /\ \E len \in 0..MaxSlots :
                \/ lzlist \in [1..len -> {Object(v) : v \in ElemVals}]
                \/ lzlist \in [1..len -> {Pickled(s) : s \in ObjStrings}]
       \/ /\ lzkind = "aug" /\ lzmap = <<>>
          /\ \E len \in 0..MaxSlots :
                \/ lzlist \in [1..len -> {Object(v) : v \in ElemVals}]
                \/ lzlist \in [1..len ->
                       {PickledWithKeys(s, eq_key_getter(loads(s)),
                                        persistent_hash_key_getter(loads(s))) :
                           s \in ObjStrings}]

Ret(op, k, ok, item, again) ==
    [op |-> op, key |-> k, ok |-> ok,
     val |-> IF ok THEN item.val ELSE NoVal,
     gen |-> IF ok THEN item.n ELSE 0,
     again |-> again, before |-> <<>>, out |-> <<>>,
     written |-> NoVal, wrote_over |-> "none"]

\* What a write found in the slot it wrote to.
Held(slots, k) ==
    IF k \notin DOMAIN slots THEN "absent"
    ELSE IF slots[k].pickled THEN "serialized" ELSE "materialized"

\* A read right after a successful write to the same key or index: what
\* was written, and over what.
AfterWrite(ret, k) ==
    IF lzret.op \in {"setitem", "insert"} /\ lzret.ok /\ lzret.key = k
    THEN [ret EXCEPT !.written = lzret.written,
                     !.wrote_over = lzret.wrote_over]
    ELSE ret

\* A write that wraps the value as if it had come from a pickle.
Dict_setitem_wrapping(map, k, value) == DictSet(map, k, PickledObject(value))

\* LazilyUnpicklingDict.__setitem__: self._map[key] = value
Dict_setitem(map, k, value) == DictSet(map, k, value)

\* LazilyUnpicklingList.__setitem__: self._list[key] = value
List_setitem(list, i, value) == [list EXCEPT ![i] = value]

\* LazilyUnpicklingList.insert: self._list.insert(key, value)
List_insert(list, i, value) == ListInsert(list, i, value)

DictGetItem ==
    \E k \in 1..MaxSlots :
        LET r == Dict_getitem(lzmap, k)
        IN  /\ lzkind = "dict"
            /\ lzmap' = r.cont
            /\ lzret' = AfterWrite(
                   Ret("getitem", k, r.ok, r.item,
                       r.ok /\ ~lzmap[k].pickled /\ lzmap[k].n = 1), k)
            /\ UNCHANGED <<lzkind, lzlist>>
            /\ UNCHANGED nonLazyVars

DictSetItem ==
    \E k \in 1..MaxSlots, v \in ElemVals :
        /\ lzkind = "dict"
        /\ lzmap' = Dict_setitem(lzmap, k, Object(v))
        /\ lzret' = [Ret("setitem", k, TRUE, Object(v), FALSE) EXCEPT
                         !.written = v, !.wrote_over = Held(lzmap, k)]
        /\ UNCHANGED <<lzkind, lzlist>>
        /\ UNCHANGED nonLazyVars

DictDelItem ==
    \E k \in 1..MaxSlots :
        /\ lzkind = "dict"
        /\ lzmap' = IF k \in DOMAIN lzmap
                    THEN [x \in (DOMAIN lzmap) \ {k} |-> lzmap[x]] ELSE lzmap
        /\ lzret' = Ret("delitem", k, k \in DOMAIN lzmap, Object(NoVal), FALSE)
        /\ UNCHANGED <<lzkind, lzlist>>
        /\ UNCHANGED nonLazyVars

ListGetItem ==
    \E i \in 1..MaxSlots :
        LET r == List_getitem(lzlist, i)
        IN  /\ IsListKind
            /\ lzlist' = r.cont
            /\ lzret' = AfterWrite(
                   Ret("getitem", i, r.ok, r.item,
                       r.ok /\ ~lzlist[i].pickled /\ lzlist[i].n = 1), i)
            /\ UNCHANGED <<lzkind, lzmap>>
            /\ UNCHANGED nonLazyVars

ListSetItem ==
    \E i \in 1..MaxSlots, v \in ElemVals :
        /\ IsListKind
        /\ lzlist' = IF i \in 1..Len(lzlist)
                     THEN List_setitem(lzlist, i, Object(v)) ELSE lzlist
        /\ lzret' = [Ret("setitem", i, i \in 1..Len(lzlist), Object(v), FALSE)
                         EXCEPT !.written = v, !.wrote_over = Held(lzlist, i)]
        /\ UNCHANGED <<lzkind, lzmap>>
        /\ UNCHANGED nonLazyVars

ListDelItem ==
    \E i \in 1..MaxSlots :
        /\ IsListKind
        /\ lzlist' = IF i \in 1..Len(lzlist) THEN ListDelete(lzlist, i) ELSE lzlist
        /\ lzret' = Ret("delitem", i, i \in 1..Len(lzlist), Object(NoVal), FALSE)
        /\ UNCHANGED <<lzkind, lzmap>>
        /\ UNCHANGED nonLazyVars

ListInsertItem ==
    \E i \in 1..MaxSlots, v \in ElemVals :
        /\ IsListKind
        /\ Len(lzlist) < MaxSlots
        /\ i <= Len(lzlist) + 1
        /\ lzlist' = List_insert(lzlist, i, Object(v))
        /\ lzret' = [Ret("insert", i, TRUE, Object(v), FALSE) EXCEPT
                         !.written = v, !.wrote_over = "absent"]
        /\ UNCHANGED <<lzkind, lzmap>>
        /\ UNCHANGED nonLazyVars

\* LazilyUnpicklingList.__getitem__ with a slice: item = self._list[key] is
\* a list, not a _PickledObject, and is returned as it is.
List_getslice(list, lo, hi) ==
    [cont |-> list,
     out |-> SubSeq(list, lo, IF hi < Len(list) THEN hi ELSE Len(list))]

\* Sequence.__iter__: self[0], self[1], ... until IndexError; and
\* Mapping.values() / items(): self[key] for key in self.  Every element
\* goes through __getitem__.
Materialized(slots) ==
    [k \in DOMAIN slots |->
        IF slots[k].pickled THEN unpickle(slots[k]) ELSE slots[k]]

List_iter(list) == [cont |-> Materialized(list), out |-> Materialized(list)]

Dict_values(map) == [cont |-> Materialized(map), out |-> Materialized(map)]

Dict_items(map) == [cont |-> Materialized(map), out |-> Materialized(map)]

\* LazilyUnpicklingList.__add__: return self._list + other
List_add(list, other) == [cont |-> list, out |-> list \o other]

\* LazilyUnpicklingList.__mul__: return self._list * other
List_mul(list, other) ==
    [cont |-> list,
     out |-> [j \in 1..(Len(list) * other) |-> list[((j - 1) % Len(list)) + 1]]]

\* The read operations that return several elements.
ListRead ==
    \E op \in {"getslice", "iter", "add", "mul"}, lo, hi \in 1..MaxSlots,
       v \in ElemVals :
        LET r == CASE op = "getslice" -> List_getslice(lzlist, lo, hi)
                   [] op = "iter" -> List_iter(lzlist)
                   [] op = "add" -> List_add(lzlist, <<Object(v)>>)
                   [] OTHER -> List_mul(lzlist, hi)
        IN  /\ IsListKind
            /\ op \in {"iter", "add"} => lo = 1 /\ hi = 1
            /\ op = "mul" => lo = 1
            /\ op # "add" => v = 1
            /\ lzlist' = r.cont
            /\ lzret' = [NoRet EXCEPT !.op = op, !.before = lzlist,
                                      !.out = r.out]
            /\ UNCHANGED <<lzkind, lzmap>>
            /\ UNCHANGED nonLazyVars

DictRead ==
    \E op \in {"values", "items"} :
        LET r == IF op = "values" THEN Dict_values(lzmap)
                 ELSE Dict_items(lzmap)
        IN  /\ lzkind = "dict"
            /\ lzmap' = r.cont
            /\ lzret' = [NoRet EXCEPT !.op = op, !.before = lzmap,
                                      !.out = r.out]
            /\ UNCHANGED <<lzkind, lzlist>>
            /\ UNCHANGED nonLazyVars

\* pickle.dumps(container) calls __getstate__; the container stays as it is.
GetState ==
    /\ lzkind \in {"dict", "list", "aug"}
    /\ lzret' = [NoRet EXCEPT
                    !.op = "getstate",
                    !.before = IF lzkind = "dict" THEN lzmap ELSE lzlist,
                    !.out = CASE lzkind = "dict" -> Dict_getstate(lzmap)
                              [] lzkind = "list" -> List_getstate(lzlist)
                              [] OTHER -> Aug_getstate(lzlist)]
    /\ UNCHANGED <<lzkind, lzmap, lzlist>>
    /\ UNCHANGED nonLazyVars

\* pickle.loads of that state: __dict__ is restored, every slot a wrapper.
SetState ==
    /\ lzret.op = "getstate"
    /\ lzmap' = IF lzkind = "dict" THEN lzret.out ELSE lzmap
    /\ lzlist' = IF lzkind = "dict" THEN lzlist ELSE lzret.out
    /\ lzret' = [NoRet EXCEPT !.op = "setstate"]
    /\ UNCHANGED lzkind
    /\ UNCHANGED nonLazyVars

LazyNext ==
    \/ DictGetItem \/ DictSetItem \/ DictDelItem
    \/ ListGetItem \/ ListSetItem \/ ListDelItem \/ ListInsertItem
    \/ ListRead \/ DictRead
    \/ GetState \/ SetState

\* The slots of the container at hand, by key or position.
LazySlots == IF lzkind = "dict" THEN lzmap ELSE lzlist

\* C6: the first read of a serialized slot deserializes it and leaves the
\* materialized value in the slot; every later read returns that same
\* instance; each element's bytes are deserialized at most once.
C6_MaterializedOnceInPlace ==
    /\ \A k \in DOMAIN LazySlots : LazySlots[k].n <= 1
    /\ (lzret.op = "getitem" /\ lzret.ok) =>
           LET slot == LazySlots[lzret.key]
           IN  /\ ~slot.pickled
               /\ slot.val = lzret.val /\ slot.n = lzret.gen
               /\ slot.n = 1 => slot.val = loads(slot.objstring)

\* A read of a slot that an earlier read had materialized.
C6_Witness ==
    /\ lzret.op = "getitem" /\ lzret.ok /\ lzret.again
    /\ lzret.gen = 1 /\ lzkind = "dict"

\* C9: serializing a lazy container emits a materialized element freshly
\* pickled and a serialized element with exactly its stored bytes, and
\* changes no slot of the container (nothing is deserialized).
C9_GetStatePassesThrough ==
    lzret.op = "getstate" =>
        /\ LazySlots = lzret.before
        /\ DOMAIN lzret.out = DOMAIN lzret.before
        /\ \A k \in DOMAIN lzret.before :
              /\ lzret.out[k].pickled
              /\ lzret.out[k].objstring =
                     IF lzret.before[k].pickled
                     THEN lzret.before[k].objstring
                     ELSE dumps(lzret.before[k].val)

\* C23: a write to a key or index stores the given value as it is, never a
\* wrapper: the slot then holds the written value, and the next read of the
\* slot returns exactly that value without any deserialization, whether
\* the slot held a serialized element, a materialized one or none before.
C23_WriteStoresMaterialized ==
    /\ (lzret.op \in {"setitem", "insert"} /\ lzret.ok)
           => LazySlots[lzret.key] = Object(lzret.written)
    /\ (lzret.op = "getitem" /\ lzret.written # NoVal)
           => /\ lzret.ok /\ lzret.val = lzret.written /\ lzret.gen = 0
              /\ LazySlots[lzret.key] = Object(lzret.written)

\* C23 witness: a slot holding a serialized element was written to and
\* then read: the read returned the written value, nothing deserialized.
C23_Witness ==
    /\ lzret.op = "getitem" /\ lzret.written # NoVal
    /\ lzret.wrote_over = "serialized"
    /\ lzret.val = lzret.written /\ lzret.gen = 0

\* C29: no read operation hands a still-serialized wrapper to the caller:
\* integer indexing, slice indexing, iteration, + and * of a lazy sequence
\* and key lookup, values() and items() of a lazy mapping yield
\* materialized values only.  (Violated: a slice, + and * return the
\* elements of the underlying list as they are, wrappers included.)
C29_ReadsYieldMaterialized ==
    /\ (lzret.op = "getitem" /\ lzret.ok) => lzret.val # NoVal
    /\ lzret.op \in {"getslice", "iter", "add", "mul", "values", "items"}
           => \A k \in DOMAIN lzret.out : ~lzret.out[k].pickled

\* A container with one slot still serialized from an older pickle protocol
\* and one materialized slot has been serialized.
C9_Witness ==
    /\ lzret.op = "getstate" /\ lzkind = "aug"
    /\ \E i, j \in DOMAIN lzret.before :
          /\ lzret.before[i].pickled
          /\ lzret.before[i].objstring[2] = OlderProtocol
          /\ ~lzret.before[j].pickled
          /\ lzret.out[i].objstring = lzret.before[i].objstring

(***************************************************************************)
(* LazilyUnpicklingListWithEqAndPersistentHashing: == and persistent hash  *)
(* (tools.py 448-506)                                                      *)
(***************************************************************************)

\* The element stored as v: a domain object with one significant field.
ElementObject(v) == DomainObject(<<Atom("int", v)>>, 0)

\* The object a slot stands for, and its eq key.
SlotValue(slot) == IF slot.pickled THEN loads(slot.objstring) ELSE slot.val

ElemEqKey(slot) == eq_key_getter(SlotValue(slot))

\* eq_key_getter applied to a plain _PickledObject: the getter reads the
\* element's attributes, which the wrapper does not have.
GetterRaises(slot) == slot.pickled /\ ~slot.with_keys

RECURSIVE EqLoop(_, _, _)
\* for a, b in zip(self._list, other): compare the eq keys, stop at the
\* first difference
EqLoop(list, other, i) ==
    IF i > Len(list) THEN "true"
    ELSE IF GetterRaises(list[i]) \/ GetterRaises(other[i]) THEN "raises"
    ELSE IF get_eq_key(list[i]) # get_eq_key(other[i]) THEN "false"
    ELSE EqLoop(list, other, i + 1)

\* __eq__(self, other) for other a list or a LazilyUnpicklingList
Aug_eq(list, other) ==
    IF Len(list) # Len(other) THEN "false" ELSE EqLoop(list, other, 1)

\* KeyBuilder.rec on a raw element of _list: a wrapper with keys hashes its
\* persistent_hash_key, an object hashes itself.
rec_element(slot) ==
    IF slot.pickled /\ slot.with_keys
    THEN Hashed(rec(DigestStr(slot.persistent_hash_key)))
    ELSE IF slot.pickled THEN <<ErrorToken>>
    ELSE rec(ElementObject(slot.val))

\* update_persistent_hash(self, key_hash, key_builder):
\* key_builder.update_for_list(key_hash, self._list)
Aug_update_persistent_hash(list) ==
    Concat([i \in 1..Len(list) |-> rec_element(list[i])])

\* The digest of the container through a LoopyKeyBuilder
Aug_digest(list) == Hashed(Hashed(Aug_update_persistent_hash(list)))

\* The digest of the plain list of the materialized elements
PlainDigest(list) ==
    LoopyKeyBuilder(Container("list",
        [i \in 1..Len(list) |-> ElementObject(SlotValue(list[i]))]))

MaterializeAll(list) ==
    [i \in 1..Len(list) |->
        IF list[i].pickled THEN unpickle(list[i]) ELSE list[i]]

AugObjStrings == {dumps(v) : v \in ElemVals}

AugSlots ==
    {Object(v) : v \in ElemVals}
    \cup {PickledWithKeys(o, eq_key_getter(loads(o)),
                          persistent_hash_key_getter(loads(o))) :
             o \in AugObjStrings}

PlainSlots ==
    {Object(v) : v \in ElemVals} \cup {Pickled(o) : o \in AugObjStrings}

NoAugRet == [op |-> "init", result |-> "", digest |-> <<>>,
             beforeS |-> <<>>, beforeT |-> <<>>]

AugIdle ==
    /\ augS = <<>> /\ augT = [kind |-> "list", list |-> <<>>]
    /\ augret = NoAugRet

\* S is an augmented list; T a Python list of objects, a plain
\* LazilyUnpicklingList or another augmented list.  Slots hold objects or
\* the wrappers left by unpickling the container.
AugInit ==
    /\ augS \in Seqs(AugSlots, MaxSlots)
    /\ \E kind \in {"list", "lazy", "aug"} :
          \E l \in Seqs(CASE kind = "list" -> {Object(v) : v \in ElemVals}
                          [] kind = "lazy" -> PlainSlots
                          [] OTHER -> AugSlots, MaxSlots) :
              augT = [kind |-> kind, list |-> l]
    /\ augret = NoAugRet

\* S[i]
AugReadS ==
    \E i \in 1..MaxSlots :
        /\ i <= Len(augS)
        /\ augS' = List_getitem(augS, i).cont
        /\ augret' = [NoAugRet EXCEPT !.op = "getitem"]
        /\ UNCHANGED augT
        /\ UNCHANGED nonAugVars

\* T[i] on a lazy T
AugReadT ==
    \E i \in 1..MaxSlots :
        /\ i <= Len(augT.list)
        /\ augT.kind # "list"
        /\ augT' = [augT EXCEPT !.list = List_getitem(augT.list, i).cont]
        /\ augret' = [NoAugRet EXCEPT !.op = "getitem"]
        /\ UNCHANGED augS
        /\ UNCHANGED nonAugVars

\* S == T
AugEq ==
    /\ augret' = [NoAugRet EXCEPT !.op = "eq",
                                  !.result = Aug_eq(augS, augT.list),
                                  !.beforeS = augS, !.beforeT = augT.list]
    /\ UNCHANGED <<augS, augT>>
    /\ UNCHANGED nonAugVars

\* LoopyKeyBuilder()(S)
AugHash ==
    /\ augret' = [NoAugRet EXCEPT !.op = "hash",
                                  !.digest = Aug_digest(augS),
                                  !.beforeS = augS, !.beforeT = augT.list]
    /\ UNCHANGED <<augS, augT>>
    /\ UNCHANGED nonAugVars

AugNext == AugReadS \/ AugReadT \/ AugEq \/ AugHash

\* C7: S == T is true iff the lengths agree and the eq keys of S[i] and T[i]
\* agree for every i, for T a list or any lazy sequence; == leaves every
\* serialized slot serialized.  (Violated: for a plain LazilyUnpicklingList T
\* with a serialized slot the getter is applied to the wrapper.)
C7_EqIffEqKeysEqual ==
    augret.op = "eq" =>
        /\ (augret.result = "true") <=>
               (/\ Len(augS) = Len(augT.list)
                /\ \A i \in 1..Len(augS) :
                      ElemEqKey(augS[i]) = ElemEqKey(augT.list[i]))
        /\ augS = augret.beforeS /\ augT.list = augret.beforeT

\* C8: the digest and every == result of an augmented list are the same
\* whether its elements are serialized or materialized, and agree with the
\* plain list of the materialized values.  (Violated: a serialized element
\* contributes the hash of its persistent_hash_key, a materialized element
\* its own persistent hash.)
C8_SameSerializedOrMaterialized ==
    /\ augret.op = "hash" =>
           /\ augret.digest = Aug_digest(MaterializeAll(augS))
           /\ augret.digest = PlainDigest(augS)
    /\ augret.op = "eq" =>
           augret.result = Aug_eq(MaterializeAll(augS), augT.list)

(***************************************************************************)
(* memoize_on_disk (tools.py 849-900)                                      *)
(***************************************************************************)

\* The callers of the wrapper: threads or processes sharing the store.
Procs == {"p", "q"}

\* Bound: at most MaxCalls wrapper calls are made.
MaxCalls == 2

\* Names, as str values: func.__qualname__, func.__name__, a keyword of
\* func, and "_no_memoize_on_disk".
QualName == 1

FuncName == 2

KwName == 3

NoMemoizeName == 4

\* Results func can return.
Results == {1, 2}

NoResult == 0

\* Positional arguments: the same frozenset in both iteration orders.
MemoArgs ==
    { <<Container("frozenset", <<Atom("int", 1), Atom("int", 2)>>)>>,
      <<Container("frozenset", <<Atom("int", 2), Atom("int", 1)>>)>> }

\* Keyword arguments other than the bypass keyword.
MemoKwargs == { <<>>, << <<Atom("str", KwName), Atom("int", 1)>> >> }

\* The caller's _no_memoize_on_disk keyword.
Bypasses == {"absent", "true", "false"}

WithBypass(kwargs, bypass) ==
    IF bypass = "absent" THEN kwargs
    ELSE kwargs \o << <<Atom("str", NoMemoizeName),
                        Atom("bool", IF bypass = "true" THEN 1 ELSE 0)>> >>

HasBypass(kwargs) ==
    \E i \in 1..Len(kwargs) : kwargs[i][1] = Atom("str", NoMemoizeName)

\* kwargs.pop("_no_memoize_on_disk", False): the value and what is left
pop(kwargs) ==
    [value |-> \E i \in 1..Len(kwargs) :
                   /\ kwargs[i][1] = Atom("str", NoMemoizeName)
                   /\ kwargs[i][2].v = 1,
     rest |-> SelectSeq(kwargs, LAMBDA kv : kv[1] # Atom("str", NoMemoizeName))]

\* cache_key = (func.__qualname__, func.__name__, args, kwargs)
cache_key(args, kwargs) ==
    Container("tuple", <<Atom("str", QualName), Atom("str", FuncName),
                         Container("tuple", args), Container("dict", kwargs)>>)

RECURSIVE InIterationOrder(_)
\* The value with every set read as the tuple of its iteration order.
InIterationOrder(ckey) ==
    [tag |-> IF ckey.tag \in SetTags THEN "tuple" ELSE ckey.tag,
     v |-> ckey.v,
     items |-> IF ckey.tag \in MappingTags THEN ckey.items
               ELSE [i \in 1..Len(ckey.items) |-> InIterationOrder(ckey.items[i])]]

\* A ckey builder that hashes sets in iteration order.
key_builder_in_iteration_order(ckey) == LoopyKeyBuilder(InIterationOrder(ckey))

\* key_builder_t(): the store's ckey builder
key_builder_t(ckey) == LoopyKeyBuilder(ckey)

\* An unconditional write, replacing what is stored under the key.
store(cache, k, value) ==
    [x \in DOMAIN cache \cup {k} |-> IF x = k THEN value ELSE cache[x]]

\* WriteOncePersistentDict.store_if_not_present: write only if the key is
\* absent, atomically
store_if_not_present(cache, k, value) ==
    IF k \in DOMAIN cache THEN cache
    ELSE [x \in DOMAIN cache \cup {k} |-> IF x = k THEN value ELSE cache[x]]

NoCall ==
    [pc |-> "idle", args |-> <<>>, kwargs |-> <<>>, fkwargs |-> <<>>,
     direct |-> FALSE, key |-> <<>>, result |-> NoResult,
     fresult |-> NoResult, executed |-> FALSE, touched |-> FALSE,
     noop |-> FALSE, seq |-> FALSE, exc |-> "none",
     hit |-> FALSE, nexec |-> 0, nstore |-> 0, retry |-> FALSE]

\* A wrapper that records the failure of func under the key.
store_failure_on_raise(cache, k) == store_if_not_present(cache, k, NoResult)

\* func raising at line 895: no handler is around the call, the exception
\* leaves the wrapper before line 897 and the store is as it was.
store_on_raise(cache, k) == cache

\* A wrapper that returns what the store holds under the key after the
\* write.
wrapper_result_reread(cache, k, result) == cache[k]

\* return result, line 898: the value func returned, whatever the store
\* holds under the key
wrapper_result(cache, k, result) == result

\* Same arguments up to the iteration order of sets and mappings.
SameArguments(c, args, kwargs) ==
    /\ StructEq(Container("tuple", c.args), Container("tuple", args))
    /\ StructEq(Container("dict", c.kwargs), Container("dict", kwargs))

MemoIdle ==
    /\ CACHING_ENABLED = TRUE
    /\ func = [var_kwargs |-> FALSE]
    /\ transform_cache = <<>>
    /\ calls = [p \in Procs |-> NoCall]
    /\ completed = {}
    /\ ncalls = 0

MemoInit ==
    /\ CACHING_ENABLED = TRUE
    /\ func \in [var_kwargs : BOOLEAN]
    /\ transform_cache = <<>>
    /\ calls = [p \in Procs |-> NoCall]
    /\ completed = {}
    /\ ncalls = 0

\* wrapper(*args, **kwargs), lines 869-876: read the flag, pop the bypass
\* keyword only if the flag is on, then either go to func or build the key.
Call(p) ==
    /\ calls[p].pc \in {"idle", "done", "raised"}
    /\ ncalls < MaxCalls
    /\ ncalls' = ncalls + 1
    /\ \E args \in MemoArgs, kw \in MemoKwargs, bypass \in Bypasses :
          LET kwargs == WithBypass(kw, bypass)
              popped == IF CACHING_ENABLED THEN pop(kwargs)
                        ELSE [value |-> FALSE, rest |-> kwargs]
              direct == ~CACHING_ENABLED \/ popped.value
          IN  calls' = [calls EXCEPT ![p] =
                  [NoCall EXCEPT
                      !.pc = IF direct THEN "direct" ELSE "lookup",
                      !.args = args, !.kwargs = kwargs,
                      !.fkwargs = popped.rest,
                      !.direct = direct,
                      !.key = IF direct THEN <<>>
                              ELSE key_builder_t(cache_key(args, popped.rest)),
                      !.seq = /\ ~direct
                              /\ \E c \in completed :
                                    SameArguments(c, args, popped.rest),
                      !.retry = /\ ~direct /\ ~calls[p].direct
                                /\ calls[p].pc = "raised"
                                /\ calls[p].exc = "func"
                                /\ SameArguments(calls[p], args, popped.rest)]]
    /\ UNCHANGED <<CACHING_ENABLED, func, transform_cache, completed>>
    /\ UNCHANGED nonMemoVars

\* result = transform_cache[cache_key], lines 878-882 (KeyError on a miss)
Lookup(p) ==
    /\ calls[p].pc = "lookup"
    /\ LET hit == calls[p].key \in DOMAIN transform_cache
       IN  /\ calls' = [calls EXCEPT
                  ![p].touched = TRUE,
                  ![p].hit = hit,
                  ![p].pc = IF hit THEN "done" ELSE "compute",
                  ![p].result = IF hit THEN transform_cache[calls[p].key]
                                ELSE NoResult]
           /\ completed' = IF hit
                           THEN completed \cup {[args |-> calls[p].args,
                                                 kwargs |-> calls[p].fkwargs]}
                           ELSE completed
    /\ UNCHANGED <<CACHING_ENABLED, func, transform_cache, ncalls>>
    /\ UNCHANGED nonMemoVars

\* func(*args, **kwargs), lines 874 and 895: a func without **kwargs rejects
\* the bypass keyword before its body runs; otherwise the body runs and
\* returns a result or raises.
Execute(p) ==
    /\ calls[p].pc \in {"direct", "compute"}
    /\ IF HasBypass(calls[p].fkwargs) /\ ~func.var_kwargs
       THEN /\ calls' = [calls EXCEPT ![p].pc = "raised",
                                      ![p].exc = "TypeError"]
            /\ UNCHANGED transform_cache
       ELSE \E outcome \in Results \cup {NoResult} :
            /\ transform_cache' =
                   IF outcome = NoResult /\ ~calls[p].direct
                   THEN store_on_raise(transform_cache, calls[p].key)
                   ELSE transform_cache
            /\ calls' = [calls EXCEPT
                   ![p].executed = TRUE,
                   ![p].nexec = calls[p].nexec + 1,
                   ![p].fresult = outcome,
                   ![p].result = IF calls[p].direct THEN outcome ELSE NoResult,
                   ![p].exc = IF outcome = NoResult THEN "func" ELSE "none",
                   ![p].pc = IF outcome = NoResult THEN "raised"
                             ELSE IF calls[p].direct THEN "done" ELSE "store"]
    /\ UNCHANGED <<CACHING_ENABLED, func, completed, ncalls>>
    /\ UNCHANGED nonMemoVars

\* transform_cache.store_if_not_present(cache_key, result); return result,
\* lines 897-898
Store(p) ==
    /\ calls[p].pc = "store"
    /\ transform_cache' =
           store_if_not_present(transform_cache, calls[p].key, calls[p].fresult)
    /\ calls' = [calls EXCEPT
           ![p].touched = TRUE,
           ![p].noop = calls[p].key \in DOMAIN transform_cache,
           ![p].nstore = calls[p].nstore + 1,
           ![p].result = wrapper_result(transform_cache', calls[p].key,
                                        calls[p].fresult),
           ![p].pc = "done"]
    /\ completed' = completed \cup {[args |-> calls[p].args,
                                     kwargs |-> calls[p].fkwargs]}
    /\ UNCHANGED <<CACHING_ENABLED, func, ncalls>>
    /\ UNCHANGED nonMemoVars

\* loopy.set_caching_enabled
SetCachingEnabled ==
    /\ CACHING_ENABLED' = ~CACHING_ENABLED
    /\ UNCHANGED <<func, transform_cache, calls, completed, ncalls>>
    /\ UNCHANGED nonMemoVars

CallStep == \E p \in Procs : Call(p)

LookupStep == \E p \in Procs : Lookup(p)

ExecuteStep == \E p \in Procs : Execute(p)

StoreStep == \E p \in Procs : Store(p)

MemoNext ==
    CallStep \/ LookupStep \/ ExecuteStep \/ StoreStep \/ SetCachingEnabled

\* C1: a non-bypassed call that starts after a non-bypassed call with
\* structurally equal (args, kwargs) has returned does not execute func: it
\* finds the stored key and returns the stored value.
C1_SecondCallDoesNotExecute ==
    \A p \in Procs :
        calls[p].seq =>
            /\ ~calls[p].executed
            /\ calls[p].pc \in {"lookup", "done"}
            /\ calls[p].key \in DOMAIN transform_cache
            /\ calls[p].pc = "done" =>
                   calls[p].result = transform_cache[calls[p].key]

\* C1 witness: a second call returned from the store, its argument the same
\* frozenset as an earlier call's in another iteration order.
C1_Witness ==
    \E p \in Procs :
        /\ calls[p].seq /\ calls[p].pc = "done" /\ ~calls[p].executed
        /\ \E c \in completed :
              /\ c.args # calls[p].args
              /\ SameArguments(c, calls[p].args, calls[p].fkwargs)

\* C2: no step replaces or removes a stored value (the first write wins),
\* and a write that finds the key present changes nothing and returns
\* normally with the caller's own result.
C2_FirstWriteWins ==
    [][/\ \A k \in DOMAIN transform_cache :
              /\ k \in DOMAIN transform_cache'
              /\ transform_cache'[k] = transform_cache[k]
       /\ \A p \in Procs :
              (calls[p].pc = "store" /\ calls'[p].pc # "store") =>
                  /\ calls'[p].pc = "done"
                  /\ calls'[p].result = calls[p].fresult]_vars

\* C2 witness: two callers missed on one key and computed different
\* results; the later write was a no-op.
C2_Witness ==
    \E p \in Procs :
        /\ calls[p].pc = "done" /\ calls[p].noop
        /\ calls[p].result # transform_cache[calls[p].key]

\* C25: a non-bypassed call that returned either hit, and then returned
\* the value stored under its key without executing func and without
\* writing, or missed, and then executed func exactly once, issued exactly
\* one store_if_not_present for its key and returned the value func had
\* just computed, not a value read back from the store.
C25_HitOrMiss ==
    \A p \in Procs :
        (~calls[p].direct /\ calls[p].pc = "done") =>
            IF calls[p].hit
            THEN /\ calls[p].nexec = 0 /\ calls[p].nstore = 0
                 /\ calls[p].key \in DOMAIN transform_cache
                 /\ calls[p].result = transform_cache[calls[p].key]
            ELSE /\ calls[p].nexec = 1 /\ calls[p].nstore = 1
                 /\ calls[p].key \in DOMAIN transform_cache
                 /\ calls[p].result = calls[p].fresult

\* C25 witness: two callers missed on one key, each executed func once and
\* wrote once; each returned its own fresh result, one of them a value
\* other than the one the store holds under the key.
C25_Witness ==
    \E p, q \in Procs :
        /\ p # q /\ calls[q].key = calls[p].key
        /\ ~calls[p].direct /\ calls[p].pc = "done" /\ ~calls[p].hit
        /\ calls[p].nexec = 1 /\ calls[p].nstore = 1
        /\ calls[p].result # transform_cache[calls[p].key]
        /\ ~calls[q].direct /\ calls[q].pc = "done" /\ ~calls[q].hit
        /\ calls[q].result = transform_cache[calls[q].key]

\* C26: in every call, with the flag on or off, the wrapper consumes the
\* bypass keyword: func is invoked with the caller's keyword arguments
\* minus _no_memoize_on_disk, and the keyword is not part of the cache
\* key.  (Violated: with the flag off `not CACHING_ENABLED or kwargs.pop(..)`
\* never evaluates the pop, and func gets the keyword.)
C26_BypassKeywordConsumed ==
    \A p \in Procs :
        calls[p].pc # "idle" =>
            /\ calls[p].fkwargs = pop(calls[p].kwargs).rest
            /\ ~calls[p].direct =>
                   calls[p].key =
                       key_builder_t(cache_key(calls[p].args,
                                               pop(calls[p].kwargs).rest))

\* C31: when func raises during a miss the exception reaches the caller
\* and nothing was written for the key; the caller's next non-bypassed call
\* with the same arguments is a miss again and executes func, unless
\* another caller has stored the key in the meantime.
C31_RaiseStoresNothing ==
    \A p \in Procs :
        /\ (~calls[p].direct /\ calls[p].pc = "raised" /\ calls[p].exc = "func")
               => /\ calls[p].nstore = 0 /\ calls[p].result = NoResult
                  /\ calls[p].executed
        /\ \A k \in DOMAIN transform_cache : transform_cache[k] # NoResult
        /\ (calls[p].retry /\ calls[p].touched)
               => \/ /\ ~calls[p].hit
                     /\ calls[p].pc \in {"done", "store"} =>
                            calls[p].nexec = 1
                  \/ \E q \in Procs \ {p} :
                         /\ calls[q].nstore = 1
                         /\ calls[q].key = calls[p].key

\* C31 witness: a caller's miss ended with func raising; its next call with
\* the same arguments missed again, executed func and returned.
C31_Witness ==
    \E p \in Procs :
        /\ calls[p].retry /\ calls[p].pc = "done" /\ ~calls[p].hit
        /\ calls[p].nexec = 1 /\ calls[p].nstore = 1

\* C3: a call made with the flag off or with _no_memoize_on_disk=True
\* executes func directly and returns its result, and neither reads nor
\* writes the store.  (Violated: with the flag off the bypass keyword is
\* not popped and reaches func.)
C3_BypassExecutesDirectly ==
    \A p \in Procs :
        (calls[p].direct /\ calls[p].pc \in {"done", "raised"}) =>
            /\ ~calls[p].touched
            /\ calls[p].executed
            /\ calls[p].exc # "TypeError"
            /\ calls[p].pc = "done" => calls[p].result = calls[p].fresult

(***************************************************************************)
(* Optional (tools.py 512-584)                                             *)
(***************************************************************************)

\* The class _no_value: the default of Optional.__init__ and the state of
\* an empty Optional.
no_value == Atom("_no_value", 0)

\* Values to wrap: None, 0, False, 1 and the empty tuple.
OptionalValues ==
    {Atom("NoneType", 0), Atom("int", 0), Atom("bool", 0), Atom("int", 1),
     Container("tuple", <<>>)}

NumberTags == {"int", "bool", "float"}

\* Python's == on the values wrapped here: numbers compare by value across
\* int, bool and float; otherwise equal values have the same type.
py_eq(a, b) ==
    IF a.tag \in NumberTags /\ b.tag \in NumberTags THEN a.v = b.v
    ELSE a = b

\* Optional.__init__ taking None for the absent value.
Optional_init_none_is_absent(value) ==
    [has_value |-> value # no_value /\ value # Atom("NoneType", 0),
     _value |-> IF value # no_value /\ value # Atom("NoneType", 0)
                THEN value ELSE no_value]

\* Optional.__init__(value=_no_value); the slot _value stays unset (held as
\* no_value here) when there is no value.
Optional_init(value) ==
    [has_value |-> value # no_value,
     _value |-> IF value # no_value THEN value ELSE no_value]

\* Optional.__getstate__: _no_value or the 1-tuple of the value
Optional_getstate(opt) == IF ~opt.has_value THEN no_value ELSE <<opt._value>>

\* Optional.__setstate__
Optional_setstate(state) ==
    IF state = no_value THEN [has_value |-> FALSE, _value |-> no_value]
    ELSE [has_value |-> TRUE, _value |-> state[1]]

\* Optional.value
Optional_value(opt) ==
    IF ~opt.has_value THEN Raises("AttributeError") ELSE Answer(opt._value)

\* An __eq__ comparing the slots, an unset slot read as None.
Optional_eq_on_slots(opt, other) ==
    LET slot(o) == IF o.has_value THEN o._value ELSE Atom("NoneType", 0)
    IN  py_eq(slot(opt), slot(other))

\* Optional.__eq__
Optional_eq(opt, other) ==
    IF ~opt.has_value THEN ~other.has_value
    ELSE IF other.has_value
         THEN py_eq(Optional_value(opt).val, Optional_value(other).val)
         ELSE FALSE

\* A hash of a number that tells int, bool and float apart.
py_hash_with_type(a) == <<TypeToken(a.tag), ValueToken(a.v)>>

RECURSIVE py_hash(_)
\* The builtin hash(): equal numbers hash alike whatever their type
\* (hash(1) == hash(True) == hash(1.0)); a tuple's hash is made of its
\* elements' hashes in order; other values hash by type and value.
py_hash(a) ==
    IF a.tag \in NumberTags THEN <<ValueToken(a.v)>>
    ELSE IF a.tag = "tuple"
    THEN Hashed(Concat([i \in 1..Len(a.items) |-> py_hash(a.items[i])]))
    ELSE <<TypeToken(a.tag), ValueToken(a.v)>>

\* hash of a 2-tuple whose elements have the hashes h1 and h2
py_hash_pair(h1, h2) == Hashed(h1 \o h2)

\* Optional.__hash__: hash((type(self), False)) when empty, else
\* hash((self.has_value, self._value))
Optional_hash(opt) ==
    IF ~opt.has_value
    THEN py_hash_pair(<<TypeToken("type")>>, py_hash(Atom("bool", 0)))
    ELSE py_hash_pair(py_hash(Atom("bool", 1)), py_hash(opt._value))

\* The Optional as a value handed to a key builder.
OptionalAsKey(opt) ==
    Container("Optional", IF opt.has_value THEN <<opt._value>> ELSE <<>>)

\* What an Optional feeds to the caller's hash.
Optional_payload(opt) == Optional_update_persistent_hash(OptionalAsKey(opt))

NoOptRet ==
    [op |-> "init", eq |-> FALSE, ne |-> FALSE, value |-> Raises(""),
     dx |-> <<>>, dy |-> <<>>]

OptIdle ==
    /\ optx = Optional_init(no_value) /\ opty = Optional_init(no_value)
    /\ optargs = <<no_value, no_value>>
    /\ optret = NoOptRet

\* x = Optional(a) or Optional(), y likewise
OptInit ==
    \E a, b \in OptionalValues \cup {no_value} :
        /\ optx = Optional_init(a) /\ opty = Optional_init(b)
        /\ optargs = <<a, b>>
        /\ optret = NoOptRet

\* x == y and x != y (object.__ne__ inverts __eq__)
OptEq ==
    /\ optret' = [NoOptRet EXCEPT !.op = "eq",
                                  !.eq = Optional_eq(optx, opty),
                                  !.ne = ~Optional_eq(optx, opty)]
    /\ UNCHANGED <<optx, opty, optargs>>
    /\ UNCHANGED nonOptVars

\* x.value
OptValue ==
    /\ optret' = [NoOptRet EXCEPT !.op = "value",
                                  !.value = Optional_value(optx)]
    /\ UNCHANGED <<optx, opty, optargs>>
    /\ UNCHANGED nonOptVars

\* x = pickle.loads(pickle.dumps(x)): __getstate__, then __setstate__ on a
\* new, uninitialized Optional
OptRestore ==
    /\ optx' = Optional_setstate(Optional_getstate(optx))
    /\ optret' = [NoOptRet EXCEPT !.op = "restore"]
    /\ UNCHANGED <<opty, optargs>>
    /\ UNCHANGED nonOptVars

\* the payloads of x and y in a structural hash
OptHash ==
    /\ optret' = [NoOptRet EXCEPT !.op = "hash",
                                  !.dx = Optional_payload(optx),
                                  !.dy = Optional_payload(opty)]
    /\ UNCHANGED <<optx, opty, optargs>>
    /\ UNCHANGED nonOptVars

\* hash(x), hash(y) and x == y
OptBuiltinHash ==
    /\ optret' = [NoOptRet EXCEPT !.op = "__hash__",
                                  !.eq = Optional_eq(optx, opty),
                                  !.dx = Optional_hash(optx),
                                  !.dy = Optional_hash(opty)]
    /\ UNCHANGED <<optx, opty, optargs>>
    /\ UNCHANGED nonOptVars

\* x, y = y, x
OptSwap ==
    /\ optx' = opty /\ opty' = optx
    /\ optargs' = <<optargs[2], optargs[1]>>
    /\ optret' = [NoOptRet EXCEPT !.op = "swap"]
    /\ UNCHANGED nonOptVars

OptNext ==
    OptEq \/ OptValue \/ OptRestore \/ OptHash \/ OptBuiltinHash \/ OptSwap

\* C35: x == y implies hash(x) == hash(y), for two empty Optionals and for
\* two Optionals holding equal values (equal numbers of different types
\* included).
C35_EqualOptionalsHashAlike ==
    (optret.op = "__hash__" /\ optret.eq) => optret.dx = optret.dy

\* C35 witness: two present Optionals that compare equal although their
\* values differ in type (Optional(0) and Optional(False)) were hashed, and
\* their hashes agree.
C35_Witness ==
    /\ optret.op = "__hash__" /\ optret.eq /\ optret.dx = optret.dy
    /\ optx.has_value /\ opty.has_value /\ optx._value # opty._value

\* C14: x == y iff both are empty, or both hold a value and the values are
\* equal; != is the negation.
C14_OptionalEq ==
    optret.op = "eq" =>
        /\ optret.eq <=>
               \/ optargs[1] = no_value /\ optargs[2] = no_value
               \/ /\ optargs[1] # no_value /\ optargs[2] # no_value
                  /\ py_eq(optargs[1], optargs[2])
        /\ optret.ne <=> ~optret.eq

\* C14 witness: Optional(None) compared with Optional() is not equal.
C14_Witness ==
    /\ optret.op = "eq" /\ ~optret.eq /\ optret.ne
    /\ optargs[1] = Atom("NoneType", 0) /\ optargs[2] = no_value

\* C15: has_value is true iff the Optional was constructed with, or restored
\* from the state of, a value; .value then returns that value, and raises
\* AttributeError when has_value is false.
C15_OptionalValue ==
    /\ optx.has_value <=> optargs[1] # no_value
    /\ opty.has_value <=> optargs[2] # no_value
    /\ optret.op = "value" =>
           IF optx.has_value
           THEN optret.value = Answer(optargs[1])
           ELSE optret.value = Raises("AttributeError")

\* C15 witness: .value raised on a restored empty Optional, and (second
\* disjunct) returned None from a restored Optional(None).
C15_Witness ==
    /\ optret.op = "value"
    /\ optx = Optional_setstate(Optional_getstate(optx))
    /\ \/ ~optx.has_value /\ ~optret.value.ok
       \/ optx.has_value /\ optret.value = Answer(Atom("NoneType", 0))

\* C16: an Optional feeds the hash of () or of the 1-tuple of its value, so
\* the payload of every Optional(v) differs from the payload of Optional().
C16_OptionalHashPayload ==
    optret.op = "hash" =>
        /\ optret.dx = rec(Container("tuple",
               IF optargs[1] = no_value THEN <<>> ELSE <<optargs[1]>>))
        /\ ~IsError(optret.dx)
        /\ (optargs[1] # no_value /\ optargs[2] = no_value) =>
               optret.dx # optret.dy

\* C16 witness: Optional(()) and Optional() hashed to different payloads.
C16_Witness ==
    /\ optret.op = "hash"
    /\ optargs[1] = Container("tuple", <<>>) /\ optargs[2] = no_value
    /\ optret.dx # optret.dy

(***************************************************************************)
(* The registry of stores: caches, clear_in_mem_caches (tools.py 837-842), *)
(* and the stores memoize_on_disk creates (849-866)                        *)
(***************************************************************************)

\* Bound: at most MaxStores functions are decorated.
MaxStores == 2

\* The functions that get decorated, their names as str values: two
\* methods of one name in two classes (one __name__, two __qualname__s)
\* and a function of another name.
Funcs ==
    {[qualname |-> 5, name |-> FuncName],
     [qualname |-> 6, name |-> FuncName],
     [qualname |-> 7, name |-> 7]}

\* The values loopy.version.DATA_MODEL_VERSION takes over the releases.
Versions == {"v1", "v2"}

\* What a function returns: a value of its own, of the data model of the
\* running release.
Result(fn, version) == [by |-> fn.qualname, version |-> version]

NoCacheResult == [by |-> 0, version |-> ""]

Range(seq) == {seq[i] : i \in 1..Len(seq)}

EmptyMap == <<>>

\* A store identifier that leaves the data-model version out.
identifier_without_version(fn, builder, version) ==
    [name |-> fn.name, key_builder |-> builder, version |-> "any"]

\* The identifier of the store of a decorated function, lines 859-862:
\* "loopy-memoize-cache-" f"{func.__name__}-"
\* f"{key_builder_t.__qualname__}.{key_builder_t.__name__}"
\* f"-v0-{DATA_MODEL_VERSION}"
identifier(fn, builder, version) ==
    [name |-> fn.name, key_builder |-> builder, version |-> version]

\* key_builder_t.__qualname__ and .__name__ of the default key builder
LoopyKeyBuilderName == "LoopyKeyBuilder.LoopyKeyBuilder"

\* Every namespace a store of these functions can have on disk.
Namespaces ==
    [name : {fn.name : fn \in Funcs}, key_builder : {LoopyKeyBuilderName},
     version : Versions \cup {"any"}]

\* WriteOncePersistentDict(identifier): a store object with an empty
\* in-memory layer.
WriteOncePersistentDict(ident) ==
    [identifier |-> ident, in_mem |-> EmptyMap]

\* WriteOncePersistentDict.__getitem__: the in-memory layer first, then the
\* disk, which fills the in-memory layer; KeyError if the key is absent.
fetch(cache, entries, k) ==
    IF k \in DOMAIN cache.in_mem
    THEN [found |-> TRUE, value |-> cache.in_mem[k], store |-> cache]
    ELSE IF k \in DOMAIN entries
    THEN [found |-> TRUE, value |-> entries[k],
          store |-> [cache EXCEPT !.in_mem =
              [x \in DOMAIN cache.in_mem \cup {k} |->
                  IF x = k THEN entries[k] ELSE cache.in_mem[x]]]]
    ELSE [found |-> FALSE, value |-> NoCacheResult, store |-> cache]

\* WriteOncePersistentDict.clear_in_mem_cache
clear_in_mem_cache(cache) == [cache EXCEPT !.in_mem = EmptyMap]

\* A clear that reaches only the first registered store.
clear_first_in_mem_cache(objs, registry) ==
    [id \in DOMAIN objs |->
        IF registry # <<>> /\ id = registry[1]
        THEN clear_in_mem_cache(objs[id]) ELSE objs[id]]

\* clear_in_mem_caches(): for cache in caches: cache.clear_in_mem_cache()
clear_in_mem_caches(objs, registry) ==
    [id \in DOMAIN objs |->
        IF id \in Range(registry) THEN clear_in_mem_cache(objs[id])
        ELSE objs[id]]

NoFunc == [qualname |-> 0, name |-> 0]

NoNamespace == [name |-> 0, key_builder |-> "", version |-> ""]

NoCacheRet ==
    [op |-> "init", wrapper |-> 0, func |-> NoFunc, version |-> "",
     namespace |-> NoNamespace, direct |-> FALSE, stored_before |-> FALSE,
     executed |-> FALSE, result |-> NoCacheResult, after_clear |-> FALSE,
     disk_before |-> <<>>, failed |-> "none", exc |-> "", logged |-> FALSE]

CacheIdle ==
    /\ caches = <<>> /\ wrappers = <<>> /\ objects = <<>>
    /\ disk = [ns \in Namespaces |-> EmptyMap]
    /\ cacheret = NoCacheRet
    /\ DATA_MODEL_VERSION = "v1"

\* A process of the first release has started: no function is decorated
\* yet; the disk holds nothing.
CacheInit ==
    /\ caches = <<>> /\ wrappers = <<>> /\ objects = <<>>
    /\ disk = [ns \in Namespaces |-> EmptyMap]
    /\ cacheret = NoCacheRet
    /\ DATA_MODEL_VERSION = "v1"

\* memoize_on_disk(func), lines 858-866: make the store, register it, and
\* return the wrapper bound to it.
Decorate ==
    \E fn \in Funcs :
        /\ Len(wrappers) < MaxStores
        /\ LET id == Len(objects) + 1
               ident == identifier(fn, LoopyKeyBuilderName, DATA_MODEL_VERSION)
           IN  /\ objects' = Append(objects, WriteOncePersistentDict(ident))
               /\ caches' = Append(caches, id)
               /\ wrappers' = Append(wrappers, [func |-> fn, store |-> id])
        /\ cacheret' = [NoCacheRet EXCEPT !.op = "decorate"]
        /\ UNCHANGED <<disk, DATA_MODEL_VERSION>>
        /\ UNCHANGED <<nonCacheVars, memoVars>>

\* A cache key that leaves func.__qualname__ out.
func_cache_key_without_qualname(fn, args, kwargs) ==
    Container("tuple", <<Atom("str", fn.name),
                         Container("tuple", args), Container("dict", kwargs)>>)

\* cache_key = (func.__qualname__, func.__name__, args, kwargs), line 876,
\* of the decorated function fn: the names as str values.
func_cache_key(fn, args, kwargs) ==
    Container("tuple", <<Atom("str", fn.qualname), Atom("str", fn.name),
                         Container("tuple", args), Container("dict", kwargs)>>)

\* The keyword arguments of the calls made here, the bypass keyword aside.
CacheKwargs == {<<>>}

\* The key digest of every call without the bypass keyword:
\* key_builder_t()(cache_key), as the store computes it for a lookup.
KeyDigests ==
    [fn \in Funcs, args \in MemoArgs, kwargs \in CacheKwargs |->
        key_builder_t(func_cache_key(fn, args, kwargs))]

\* What the store does during a call: it works, or the lookup or the
\* write fails with an error that is not KeyError (an OSError, say).
Faults == {"none", "lookup", "store"}

\* One whole call of a wrapper, lines 869-898.  Only KeyError is caught
\* around the lookup, and nothing is caught around the write: any other
\* error of the store leaves the wrapper as it is.
WrapperCall ==
    \E w \in 1..MaxStores, args \in MemoArgs, kw \in CacheKwargs,
       bypass \in {"absent", "true"}, fault \in Faults :
        /\ w <= Len(wrappers)
        /\ (~CACHING_ENABLED \/ bypass = "true") => fault = "none"
        /\ LET kwargs == WithBypass(kw, bypass)
               popped == IF CACHING_ENABLED THEN pop(kwargs)
                         ELSE [value |-> FALSE, rest |-> kwargs]
               direct == ~CACHING_ENABLED \/ popped.value
               fn == wrappers[w].func
               id == wrappers[w].store
               ns == objects[id].identifier
               k == KeyDigests[fn, args, kw]
               got == fetch(objects[id], disk[ns], k)
               fresh == Result(fn, DATA_MODEL_VERSION)
               ret == [NoCacheRet EXCEPT
                          !.op = "call", !.wrapper = w, !.direct = direct,
                          !.func = fn, !.version = DATA_MODEL_VERSION,
                          !.namespace = ns,
                          !.stored_before = k \in DOMAIN disk[ns],
                          !.after_clear = cacheret.op = "clear",
                          !.result = fresh]
           IN  IF direct /\ HasBypass(popped.rest) /\ ~func.var_kwargs
               THEN /\ cacheret' = [ret EXCEPT !.exc = "TypeError",
                                               !.result = NoCacheResult]
                    /\ UNCHANGED <<objects, disk>>
               ELSE IF direct
               THEN /\ cacheret' = [ret EXCEPT !.executed = TRUE]
                    /\ UNCHANGED <<objects, disk>>
               ELSE IF fault = "lookup"
               THEN /\ cacheret' = [ret EXCEPT !.failed = "lookup",
                                               !.exc = "OSError",
                                               !.result = NoCacheResult]
                    /\ UNCHANGED <<objects, disk>>
               ELSE IF got.found
               THEN /\ cacheret' = [ret EXCEPT !.result = got.value,
                                               !.logged = TRUE]
                    /\ objects' = [objects EXCEPT ![id] = got.store]
                    /\ UNCHANGED disk
               ELSE IF fault = "store"
               THEN /\ cacheret' = [ret EXCEPT !.executed = TRUE,
                                               !.failed = "store",
                                               !.exc = "OSError",
                                               !.result = NoCacheResult,
                                               !.logged = TRUE]
                    /\ UNCHANGED <<objects, disk>>
               ELSE /\ cacheret' = [ret EXCEPT !.executed = TRUE,
                                               !.logged = TRUE]
                    /\ disk' = [disk EXCEPT ![ns] =
                           store_if_not_present(disk[ns], k, fresh)]
                    /\ UNCHANGED objects
        /\ UNCHANGED <<caches, wrappers, DATA_MODEL_VERSION>>
        /\ UNCHANGED <<nonCacheVars, memoVars>>

\* clear_in_mem_caches()
ClearInMemCaches ==
    /\ objects' = clear_in_mem_caches(objects, caches)
    /\ cacheret' = [NoCacheRet EXCEPT !.op = "clear", !.disk_before = disk]
    /\ UNCHANGED <<caches, wrappers, disk, DATA_MODEL_VERSION>>
    /\ UNCHANGED <<nonCacheVars, memoVars>>

\* loopy.set_caching_enabled, in a run of the registry
CacheSetCachingEnabled ==
    /\ CACHING_ENABLED' = ~CACHING_ENABLED
    /\ cacheret' = [NoCacheRet EXCEPT !.op = "set_caching_enabled"]
    /\ UNCHANGED <<func, transform_cache, calls, completed, ncalls>>
    /\ UNCHANGED <<caches, wrappers, objects, disk, DATA_MODEL_VERSION>>
    /\ UNCHANGED nonCacheVars

\* The process ends and a new one starts, of the same release or of the
\* next one, with a bumped DATA_MODEL_VERSION: the module is imported afresh
\* (caches = [], line 837; nothing decorated yet); the disk is kept.
Restart ==
    \E version \in Versions :
        /\ caches # <<>>
        /\ DATA_MODEL_VERSION = "v2" => version = "v2"
        /\ DATA_MODEL_VERSION' = version
        /\ caches' = <<>> /\ wrappers' = <<>> /\ objects' = <<>>
        /\ cacheret' = [NoCacheRet EXCEPT !.op = "restart"]
        /\ UNCHANGED disk
        /\ UNCHANGED <<nonCacheVars, memoVars>>

CacheNext ==
    \/ Decorate \/ WrapperCall \/ ClearInMemCaches \/ CacheSetCachingEnabled
    \/ Restart

\* C19: every store made by memoize_on_disk is in the registry, in the
\* order of decoration, and stays there; after clear_in_mem_caches the
\* in-memory layer of every store is empty and the disk is as before; a
\* non-bypassed call whose key was stored is a hit and does not execute
\* the function, also right after a clear.
C19_RegistryAndClear ==
    /\ Len(caches) = Len(wrappers)
    /\ \A w \in 1..Len(wrappers) : caches[w] = wrappers[w].store
    /\ cacheret.op = "clear" =>
           /\ \A id \in 1..Len(objects) : objects[id].in_mem = EmptyMap
           /\ disk = cacheret.disk_before
    /\ (/\ cacheret.op = "call" /\ ~cacheret.direct
        /\ cacheret.stored_before /\ cacheret.failed = "none")
           => (/\ ~cacheret.executed
               /\ cacheret.result = Result(cacheret.func, cacheret.version))

\* C20: when the lookup or the write of a non-bypassed call fails with an
\* error other than key-not-found, the wrapper still executes the function
\* and returns its result, and logs the degradation.  (Violated: the
\* wrapper catches KeyError only; the store's error reaches the caller.)
C20_DegradesToDirectExecution ==
    (cacheret.op = "call" /\ ~cacheret.direct /\ cacheret.failed # "none")
        => /\ cacheret.executed
           /\ cacheret.exc = ""
           /\ cacheret.result = Result(cacheret.func, cacheret.version)
           /\ cacheret.logged

\* C19 witness: with two stores registered, a call right after a clear hit
\* the entry on disk and refilled the in-memory layer of its store.
C19_Witness ==
    /\ Len(caches) = 2
    /\ cacheret.op = "call" /\ cacheret.after_clear /\ ~cacheret.direct
    /\ cacheret.stored_before /\ ~cacheret.executed
    /\ objects[wrappers[cacheret.wrapper].store].in_mem # EmptyMap

\* C21: the namespace of a store holds the data-model version of the
\* release that made it, so a non-bypassed call never returns an entry that
\* was stored under another version: every returned value is of the running
\* version, and a key stored only under the other version is a miss.
C21_VersionPartitionsTheStore ==
    (cacheret.op = "call" /\ cacheret.exc = "")
        => /\ cacheret.result.version = cacheret.version
           /\ (~cacheret.direct /\ ~cacheret.executed)
                  => \E k \in DOMAIN disk[cacheret.namespace] :
                         disk[cacheret.namespace][k] = cacheret.result

\* C21 witness: after a restart with a bumped version, a call whose key was
\* stored under the old version missed and executed the function.
C21_Witness ==
    /\ cacheret.op = "call" /\ ~cacheret.direct /\ cacheret.version = "v2"
    /\ cacheret.executed /\ ~cacheret.stored_before
    /\ \E ns \in Namespaces :
           /\ ns.version = "v1" /\ ns.name = cacheret.namespace.name
           /\ \E k \in DOMAIN disk[ns] :
                  /\ k \in DOMAIN disk[cacheret.namespace]
                  /\ disk[ns][k].by = cacheret.func.qualname

\* C22 as stated: two decorated functions with different qualified names
\* have different store namespaces.  (Violated: the identifier is made of
\* func.__name__, which two methods of one name share.)
C22_QualifiedNameInNamespace ==
    \A v, w \in 1..Len(wrappers) :
        wrappers[v].func.qualname # wrappers[w].func.qualname
            => objects[wrappers[v].store].identifier
                   # objects[wrappers[w].store].identifier

\* C22, amended: the namespace is made of the function's bare name, the
\* key builder's name and the data-model version; functions of one bare
\* name share a namespace, and a call to one still never returns an entry
\* stored by the other, because the cache key holds the qualified name.
C22_NoEntryOfAnotherFunction ==
    /\ \A w \in 1..Len(wrappers) :
           objects[wrappers[w].store].identifier =
               [name |-> wrappers[w].func.name,
                key_builder |-> LoopyKeyBuilderName,
                version |-> DATA_MODEL_VERSION]
    /\ (cacheret.op = "call" /\ cacheret.exc = "")
           => cacheret.result.by = cacheret.func.qualname

\* C22 witness: with two methods of one name decorated, a call to one
\* missed and executed although the other had stored the same arguments
\* in the namespace they share.
C22_Witness ==
    /\ Len(wrappers) = 2
    /\ wrappers[1].func.qualname # wrappers[2].func.qualname
    /\ objects[wrappers[1].store].identifier
           = objects[wrappers[2].store].identifier
    /\ cacheret.op = "call" /\ ~cacheret.direct /\ cacheret.executed
    /\ \E k \in DOMAIN disk[cacheret.namespace] :
           disk[cacheret.namespace][k].by # cacheret.func.qualname

(***************************************************************************)
(* Persistent tree (Tree, tools.py 918-1131)                               *)
(***************************************************************************)

\* Bound: node identifiers are 1..NNodes.
NNodes == 4

Nodes == 1..NNodes

\* Bound: at most MaxOps mutator calls are made on the trees of a run.
MaxOps == 4

\* pyrsistent PMap.set and PMap.discard on a map held as a function.
PSet(m, k, v) == [x \in (DOMAIN m) \cup {k} |-> IF x = k THEN v ELSE m[x]]

PDiscard(m, k) == [x \in (DOMAIN m) \ {k} |-> m[x]]

Tree(p2c, c2p) == [p2c |-> p2c, c2p |-> c2p]

from_root(root) == Tree(PSet(<<>>, root, {}), PSet(<<>>, root, None))

is_a_node(t, node) == node \in DOMAIN t.c2p

\* parent() and children() raise ValueError for a non-node; callers below
\* guard with is_a_node first, as the code does.
parent(t, node) == t.c2p[node]

children(t, node) == t.p2c[node]

is_root(t, node) == parent(t, node) = None

\* parent(node) and children(node) as the caller sees them
parent_query(t, node) ==
    IF ~is_a_node(t, node) THEN Raises("ValueError")
    ELSE Answer(t.c2p[node])

children_query(t, node) ==
    IF ~is_a_node(t, node) THEN Raises("ValueError")
    ELSE IF node \notin DOMAIN t.p2c THEN Raises("KeyError")
    ELSE Answer(t.p2c[node])

nodes(t) == DOMAIN t.c2p

\* The result of a mutator: a new Tree, or an exception (no Tree).
Raised(exc) == [ok |-> FALSE, exc |-> exc, tree |-> Tree(<<>>, <<>>)]

Returned(t) == [ok |-> TRUE, exc |-> "", tree |-> t]

\* An add_node that makes node the only child of its parent.
add_node_dropping_siblings(t, node, par) ==
    IF is_a_node(t, node) THEN Raised("ValueError")
    ELSE IF par \notin DOMAIN t.p2c THEN Raised("KeyError")
    ELSE Returned(Tree(PSet(PSet(t.p2c, par, {node}), node, {}),
                       PSet(t.c2p, node, par)))

add_node(t, node, par) ==
    IF is_a_node(t, node) THEN Raised("ValueError")
    ELSE IF par \notin DOMAIN t.p2c THEN Raised("KeyError")
    ELSE LET siblings == t.p2c[par]
         IN  Returned(Tree(PSet(PSet(t.p2c, par, siblings \cup {node}),
                                node, {}),
                           PSet(t.c2p, node, par)))

RECURSIVE SetAll(_, _, _)
\* for child in children: m = m.set(child, v)
SetAll(m, ks, v) ==
    IF ks = {} THEN m
    ELSE LET k == CHOOSE x \in ks : TRUE
         IN  SetAll(PSet(m, k, v), ks \ {k}, v)

\* rename_node answering with the receiver where the code raises.
rename_node_never_raising(t, node, new_id) ==
    IF ~is_a_node(t, node) \/ is_a_node(t, new_id) THEN Returned(t)
    ELSE IF ~children_query(t, node).ok THEN Returned(t)
    ELSE Returned(Tree(PSet(PDiscard(t.p2c, node), new_id, t.p2c[node]),
                       PSet(PDiscard(t.c2p, node), new_id, t.c2p[node])))

rename_node(t, node, new_id) ==
    IF ~is_a_node(t, node) THEN Raised("ValueError")
    ELSE IF is_a_node(t, new_id) THEN Raised("ValueError")
    ELSE IF ~children_query(t, node).ok
    THEN Raised(children_query(t, node).exc)
    ELSE IF parent(t, node) # None /\ ~children_query(t, parent(t, node)).ok
    THEN Raised(children_query(t, parent(t, node)).exc)
    ELSE LET par == parent(t, node)
             chl == children(t, node)
             new_child_to_parent ==
                 SetAll(PSet(PDiscard(t.c2p, node), new_id, par), chl, new_id)
             renamed == PSet(PDiscard(t.p2c, node), new_id, children(t, node))
             new_parent_to_children ==
                 IF par # None
                 THEN PSet(PDiscard(renamed, par), par,
                           (children(t, par) \ {node}) \cup {new_id})
                 ELSE renamed
         IN  Returned(Tree(new_parent_to_children, new_child_to_parent))

\* move_node answering with the receiver where the code raises.
move_node_never_raising(t, node, new_parent) ==
    IF ~is_a_node(t, node) \/ ~is_a_node(t, new_parent) THEN Returned(t)
    ELSE IF is_root(t, node) THEN Returned(t)
    ELSE Returned(Tree(t.p2c, PSet(t.c2p, node, new_parent)))

move_node(t, node, new_parent) ==
    \* is_root(node) raises ValueError itself when node is not in the tree
    IF ~is_a_node(t, node) THEN Raised("ValueError")
    ELSE IF is_root(t, node) /\ new_parent # None THEN Raised("ValueError")
    ELSE IF ~is_a_node(t, new_parent) THEN Raised("ValueError")
    ELSE IF ~children_query(t, parent(t, node)).ok
    THEN Raised(children_query(t, parent(t, node)).exc)
    ELSE IF ~children_query(t, new_parent).ok
    THEN Raised(children_query(t, new_parent).exc)
    ELSE LET par == parent(t, node)
             siblings == children(t, par)
             parents_new_children == siblings \ {node}
             new_parents_children == children(t, new_parent) \cup {node}
             new_child_to_parent == PSet(t.c2p, node, new_parent)
             new_parent_to_children ==
                 PSet(PSet(t.p2c, par, parents_new_children),
                      new_parent, new_parents_children)
         IN  Returned(Tree(new_parent_to_children, new_child_to_parent))

\* Bound on the recursion of depth() and ancestors(): a tree of NNodes
\* nodes has no longer parent chain unless the chain is a cycle.
RecursionLimit == NNodes

RECURSIVE ancestors_upto(_, _, _)
ancestors_upto(t, node, limit) ==
    IF ~is_a_node(t, node) THEN [ok |-> FALSE, exc |-> "ValueError", val |-> {}]
    ELSE IF is_root(t, node) THEN [ok |-> TRUE, exc |-> "", val |-> {}]
    ELSE IF limit = 0 THEN [ok |-> FALSE, exc |-> "RecursionError", val |-> {}]
    ELSE LET up == ancestors_upto(t, parent(t, node), limit - 1)
         IN  IF up.ok
             THEN [ok |-> TRUE, exc |-> "", val |-> {parent(t, node)} \cup up.val]
             ELSE up

\* ancestors(node): the parent and the parent's ancestors
ancestors(t, node) == ancestors_upto(t, node, RecursionLimit)

RECURSIVE depth_upto(_, _, _)
depth_upto(t, node, limit) ==
    IF ~is_a_node(t, node) THEN [ok |-> FALSE, exc |-> "ValueError", val |-> 0]
    ELSE IF is_root(t, node) THEN [ok |-> TRUE, exc |-> "", val |-> 0]
    ELSE IF limit = 0 THEN [ok |-> FALSE, exc |-> "RecursionError", val |-> 0]
    ELSE LET up == depth_upto(t, parent(t, node), limit - 1)
         IN  IF up.ok THEN [ok |-> TRUE, exc |-> "", val |-> 1 + up.val]
             ELSE up

\* depth(node): 0 for the root, else 1 + depth(parent)
depth(t, node) == depth_upto(t, node, RecursionLimit)

RECURSIVE root_from(_, _, _)
\* The loop of Tree.root from a first guess: climb while the guess has a
\* parent.  The loop has no bound of its own: when the limit is used up
\* the chain is a cycle and the loop never ends.
root_from(t, guess, limit) ==
    IF ~is_a_node(t, guess) THEN Raises("ValueError")
    ELSE IF parent(t, guess) = None THEN Answer(guess)
    ELSE IF limit = 0 THEN Raises("never returns")
    ELSE root_from(t, parent(t, guess), limit - 1)

\* Tree.root: guess = set(self._child_to_parent).pop() is any node; the
\* outcomes over every first guess.
root(t) == {root_from(t, guess, RecursionLimit) : guess \in DOMAIN t.c2p}

RECURSIVE Up(_, _, _)
\* The node k parent links above n, None above a node without parent.
Up(t, n, k) ==
    IF k = 0 THEN n
    ELSE LET m == Up(t, n, k - 1)
         IN  IF m = None \/ ~is_a_node(t, m) THEN None ELSE parent(t, m)

\* The nodes on the parent path from n (exclusive) upwards.
ParentPath(t, n) == {Up(t, n, k) : k \in 1..NNodes} \ {None}

\* A Tree in place whose fields were assigned the new mappings.
Receiver_updated_in_place(t, res) == IF res.ok THEN res.tree ELSE t

\* The receiver after a mutator returned or raised: Tree is a frozen
\* dataclass and PMap.set / PMap.discard return new maps, so the receiver
\* keeps the mappings it had.
Receiver(t, res) == t

NoCallYet(t) ==
    [op |-> "from_root", self |-> t, ok |-> TRUE, exc |-> "",
     node |-> None, arg |-> None]

TreeIdle ==
    /\ tree = from_root(1)
    /\ treeCall = NoCallYet(from_root(1))
    /\ receiver = from_root(1)
    /\ nops = 0

TreeInit ==
    \E r \in Nodes :
        /\ tree = from_root(r)
        /\ treeCall = NoCallYet(from_root(r))
        /\ receiver = from_root(r)
        /\ nops = 0

\* A mutator call on the current tree: on success the caller goes on with
\* the returned Tree, on an exception it keeps the receiver.
TreeStep(op, node, arg, res) ==
    /\ tree' = IF res.ok THEN res.tree ELSE tree
    /\ treeCall' = [op |-> op, self |-> tree, ok |-> res.ok, exc |-> res.exc,
                    node |-> node, arg |-> arg]
    /\ receiver' = Receiver(tree, res)
    /\ nops < MaxOps
    /\ nops' = nops + 1
    /\ UNCHANGED nonTreeVars

AddNode ==
    \E n \in Nodes, p \in Nodes \cup {None} :
        TreeStep("add_node", n, p, add_node(tree, n, p))

RenameNode ==
    \E n \in Nodes, m \in Nodes :
        TreeStep("rename_node", n, m, rename_node(tree, n, m))

MoveNode ==
    \E n \in Nodes, p \in Nodes \cup {None} :
        TreeStep("move_node", n, p, move_node(tree, n, p))

Mutators == {"add_node", "rename_node", "move_node"}

C12_MoveNodeRejects ==
    (/\ treeCall.op = "move_node"
     /\ \/ /\ is_a_node(treeCall.self, treeCall.node)
            /\ is_root(treeCall.self, treeCall.node)
        \/ ~is_a_node(treeCall.self, treeCall.arg))
    => /\ ~treeCall.ok
       /\ treeCall.exc = "ValueError"
       /\ tree = treeCall.self
       /\ receiver = treeCall.self

\* C12 witness: the root moved to None was rejected.
C12_Witness ==
    /\ treeCall.op = "move_node" /\ ~treeCall.ok
    /\ is_a_node(treeCall.self, treeCall.node)
    /\ is_root(treeCall.self, treeCall.node)
    /\ treeCall.arg = None
    /\ Cardinality(nodes(treeCall.self)) > 1

\* C13: rename_node raises whenever new_id already names a node (new_id =
\* node included) and whenever node is not in the tree.
C13_RenameNodeRejects ==
    (/\ treeCall.op = "rename_node"
     /\ \/ is_a_node(treeCall.self, treeCall.arg)
        \/ ~is_a_node(treeCall.self, treeCall.node))
    => /\ ~treeCall.ok
       /\ treeCall.exc = "ValueError"
       /\ tree = treeCall.self

\* C13 witness: a node renamed to its own name was rejected.
C13_Witness ==
    /\ treeCall.op = "rename_node" /\ ~treeCall.ok
    /\ treeCall.node = treeCall.arg
    /\ is_a_node(treeCall.self, treeCall.node)

\* C10: in every tree reached by successful add_node / rename_node /
\* move_node calls exactly one node has no parent, every other node has a
\* parent that is a node, both mappings have the same node set, and c is in
\* children(p) iff parent(c) = p.  (Violated: move_node accepts a move of a
\* node under itself, and renaming such a node leaves both mappings
\* inconsistent.)
C10_TreeConsistent ==
    /\ Cardinality({n \in nodes(tree) : parent(tree, n) = None}) = 1
    /\ \A n \in nodes(tree) :
           parent(tree, n) # None => parent(tree, n) \in nodes(tree)
    /\ DOMAIN tree.p2c = DOMAIN tree.c2p
    /\ \A p \in nodes(tree), c \in nodes(tree) :
           (c \in children(tree, p)) <=> (parent(tree, c) = p)
    /\ \A p \in nodes(tree) : children(tree, p) \subseteq nodes(tree)

\* The caller sees the same parent and the same children of x in both trees.
SameAt(t1, t2, x) ==
    /\ parent_query(t1, x).ok /\ parent_query(t2, x).ok
    /\ parent_query(t1, x).val = parent_query(t2, x).val
    /\ children_query(t1, x).ok /\ children_query(t2, x).ok
    /\ children_query(t1, x).val = children_query(t2, x).val

\* children(x) in t answers with the set cs.
ChildrenAre(t, x, cs) ==
    children_query(t, x).ok /\ children_query(t, x).val = cs

\* C32: after a successful rename_node(n, m) on T, in the result n is no
\* node and m is one; m has the parent and the children n had, and each of
\* these children has parent m; the parent of n, if any, has m in place of
\* n among its children; every other node keeps its parent and children.
\* (Violated on the cyclic trees of C27: a node that is its own parent or
\* child is put back under its old name.)
C32_RenameNodeResult ==
    (treeCall.op = "rename_node" /\ treeCall.ok) =>
        LET T == treeCall.self
            n == treeCall.node
            m == treeCall.arg
            p == parent(T, n)
            cs == IF children_query(T, n).ok THEN children(T, n) ELSE {}
        IN  /\ ~is_a_node(tree, n) /\ is_a_node(tree, m)
            /\ nodes(tree) = (nodes(T) \ {n}) \cup {m}
            /\ parent(tree, m) = p
            /\ children_query(T, n).ok /\ ChildrenAre(tree, m, cs)
            /\ \A c \in cs : is_a_node(tree, c) /\ parent(tree, c) = m
            /\ p # None =>
                   /\ children_query(T, p).ok
                   /\ ChildrenAre(tree, p, (children(T, p) \ {n}) \cup {m})
                   /\ parent_query(tree, p).ok
                   /\ parent(tree, p) = parent(T, p)
            /\ \A c \in cs : ChildrenAre(tree, c, children_query(T, c).val)
            /\ \A x \in nodes(T) \ ({n, p} \cup cs) : SameAt(tree, T, x)

\* C34: add_node(node, parent) raises and gives no Tree whenever node is a
\* node of the tree or parent is none; when it returns, the new tree has
\* the old nodes plus node, node is a leaf with the given parent, the
\* parent's children gained exactly node, and every other node has the
\* parent and the children it had.
C34_AddNode ==
    treeCall.op = "add_node" =>
        LET T == treeCall.self
            n == treeCall.node
            p == treeCall.arg
        IN  /\ (is_a_node(T, n) \/ ~is_a_node(T, p)) =>
                   (~treeCall.ok /\ treeCall.exc # "" /\ tree = T)
            /\ treeCall.ok =>
                   /\ nodes(tree) = nodes(T) \cup {n} /\ n \notin nodes(T)
                   /\ ChildrenAre(tree, n, {})
                   /\ parent(tree, n) = p
                   /\ children_query(T, p).ok
                   /\ ChildrenAre(tree, p, children(T, p) \cup {n})
                   /\ parent(tree, p) = parent(T, p)
                   /\ \A x \in nodes(T) \ {p} : SameAt(tree, T, x)

\* C34 witness: a node was added under a node that had a child already.
C34_Witness ==
    /\ treeCall.op = "add_node" /\ treeCall.ok
    /\ children(treeCall.self, treeCall.arg) # {}
    /\ children(tree, treeCall.arg)
           = children(treeCall.self, treeCall.arg) \cup {treeCall.node}
    /\ Cardinality(nodes(tree)) >= 3

\* C27: in every tree reached by successful add_node / rename_node /
\* move_node calls the parent relation is acyclic and every node reaches
\* the root by parent links.  (Violated: move_node accepts a move of a node
\* under itself or under one of its descendants.)
C27_AcyclicAndRooted ==
    \A n \in nodes(tree) :
        /\ \A k \in 1..NNodes : Up(tree, n, k) # n
        /\ \E k \in 0..NNodes :
               /\ Up(tree, n, k) # None
               /\ is_a_node(tree, Up(tree, n, k))
               /\ is_root(tree, Up(tree, n, k))

\* C28: on every reached tree depth(n), ancestors(n) and the root lookup
\* terminate for every node n; depth(root) = 0, depth(n) = 1 +
\* depth(parent(n)), and ancestors(n) is the set of nodes on the parent
\* path from n up to the root.  (Violated on the cyclic trees of C27: the
\* recursion of depth and ancestors has no base case to reach, and the
\* loop of root never ends when its first guess is on a cycle.)
C28_QueriesTerminate ==
    /\ \A r \in root(tree) : r.ok /\ depth(tree, r.val) = Answer(0)
    /\ \A n \in nodes(tree) :
           /\ depth(tree, n).ok
           /\ ancestors(tree, n).ok
           /\ ancestors(tree, n).val = ParentPath(tree, n)
           /\ ~is_root(tree, n) =>
                  /\ depth(tree, parent(tree, n)).ok
                  /\ depth(tree, n).val = 1 + depth(tree, parent(tree, n)).val

(***************************************************************************)
(* A lazy container shared by threads: __getitem__ step by step            *)
(* (tools.py 380-384 and 417-421)                                          *)
(***************************************************************************)

\* The threads that read the container.
Readers == {"t1", "t2"}

NoItem == Object(NoVal)

IdleReader ==
    [pc |-> "idle", key |-> 0, loaded |-> NoItem, item |-> NoItem,
     exc |-> ""]

\* An unpickle() called on what the slot holds by then, not on the item
\* the thread loaded and tested: an object has no unpickle().
Race_unpickle_reread(item, current) ==
    IF current.pickled THEN [ok |-> TRUE, item |-> unpickle(current)]
    ELSE [ok |-> FALSE, item |-> item]

\* item.unpickle() on the local the thread loaded and tested
Race_unpickle(item, current) == [ok |-> TRUE, item |-> unpickle(item)]

RaceIdle ==
    /\ shkind = "none" /\ shslots = <<>>
    /\ readers = [t \in Readers |-> IdleReader]
    /\ written = <<>>

\* A container restored from a pickle (every slot a wrapper), or one whose
\* slots are partly materialized already.
RaceInit ==
    /\ shkind \in {"dict", "list"}
    /\ shslots \in [1..MaxSlots ->
           {Pickled(s) : s \in ObjStrings} \cup {Object(v) : v \in ElemVals}]
    /\ readers = [t \in Readers |-> IdleReader]
    /\ written = <<>>

\* value = self._map[key] / item = self._list[key]
Load(t) ==
    \E k \in 1..MaxSlots :
        /\ readers[t].pc = "idle"
        /\ readers' = [readers EXCEPT ![t] =
               [IdleReader EXCEPT !.pc = "check", !.key = k,
                                  !.loaded = shslots[k], !.item = shslots[k]]]
        /\ UNCHANGED <<shkind, shslots, written>>
        /\ UNCHANGED <<nonRaceVars>>

\* if isinstance(value, _PickledObject): ... else: return value
Check(t) ==
    /\ readers[t].pc = "check"
    /\ readers' = [readers EXCEPT ![t].pc =
           IF readers[t].item.pickled THEN "unpickle" ELSE "done"]
    /\ UNCHANGED <<shkind, shslots, written>>
    /\ UNCHANGED <<nonRaceVars>>

\* value.unpickle(), assigned to the local first
Unpickle(t) ==
    /\ readers[t].pc = "unpickle"
    /\ LET r == Race_unpickle(readers[t].item, shslots[readers[t].key])
       IN  readers' = [readers EXCEPT
               ![t].item = r.item,
               ![t].exc = IF r.ok THEN "" ELSE "AttributeError",
               ![t].pc = IF r.ok THEN "store" ELSE "raised"]
    /\ UNCHANGED <<shkind, shslots, written>>
    /\ UNCHANGED <<nonRaceVars>>

\* self._map[key] = value / self._list[key] = item: one slot is assigned,
\* then the local is returned.
StoreBack(t) ==
    /\ readers[t].pc = "store"
    /\ shslots' = [shslots EXCEPT ![readers[t].key] = readers[t].item]
    /\ readers' = [readers EXCEPT ![t].pc = "done"]
    /\ UNCHANGED <<shkind, written>>
    /\ UNCHANGED <<nonRaceVars>>

\* A third thread's container[j] = v (__setitem__), to a slot that no
\* thread is reading at the moment.
ThirdPartyWrite ==
    \E j \in 1..MaxSlots, v \in ElemVals :
        /\ \A t \in Readers :
               readers[t].pc \in {"check", "unpickle", "store"}
                   => readers[t].key # j
        /\ shslots' = [shslots EXCEPT ![j] = Object(v)]
        /\ written' = DictSet(written, j, v)
        /\ UNCHANGED <<shkind, readers>>
        /\ UNCHANGED <<nonRaceVars>>

LoadStep == \E t \in Readers : Load(t)

CheckStep == \E t \in Readers : Check(t)

UnpickleStep == \E t \in Readers : Unpickle(t)

StoreBackStep == \E t \in Readers : StoreBack(t)

RaceNext ==
    LoadStep \/ CheckStep \/ UnpickleStep \/ StoreBackStep \/ ThirdPartyWrite

\* C30: under every interleaving of the load, check, unpickle and store
\* steps of two threads reading one slot, no read raises, a thread that
\* returned holds a materialized value, equal to the deserialization of the
\* slot's bytes when it had loaded a wrapper; the slot it read is then
\* materialized, holding that value or a later write; and every slot a
\* third party wrote to holds the value written.
C30_ConcurrentReads ==
    /\ \A t \in Readers :
           /\ readers[t].pc # "raised"
           /\ readers[t].pc = "done" =>
                  /\ ~readers[t].item.pickled
                  /\ readers[t].loaded.pickled =>
                         readers[t].item.val =
                             loads(readers[t].loaded.objstring)
                  /\ ~shslots[readers[t].key].pickled
                  /\ \/ shslots[readers[t].key].val = readers[t].item.val
                     \/ /\ readers[t].key \in DOMAIN written
                        /\ shslots[readers[t].key] =
                               Object(written[readers[t].key])
    /\ \A j \in DOMAIN written : shslots[j] = Object(written[j])

\* C30 witness: both threads loaded the wrapper of one slot before either
\* stored, both returned the deserialized value, and the value a third
\* party wrote meanwhile to the other slot is still there.
C30_Witness ==
    /\ readers["t1"].pc = "done" /\ readers["t2"].pc = "done"
    /\ readers["t1"].key = readers["t2"].key
    /\ readers["t1"].loaded.pickled /\ readers["t2"].loaded.pickled
    /\ readers["t1"].item.val = readers["t2"].item.val
    /\ \E j \in DOMAIN written :
           /\ j # readers["t1"].key
           /\ shslots[j] = Object(written[j])

(***************************************************************************)
(* auto_test_vs_ref (auto_test.py 344-628) with make_ref_args (64-166),    *)
(* make_args (173-275) and _enumerate_cl_devices_for_ref_test (308-337).   *)
(* pyopencl, the compiled kernels and the schedule generator are external: *)
(* what they answer is chosen by the environment.  The test kernel has the *)
(* argument list of the reference kernel.                                  *)
(***************************************************************************)

MaxArgs == 4

MaxDevs == 3

MaxWarmup == 2

MaxKernels == 2

\* The kinds of implementation arguments: a value argument, a value
\* argument that carries offset_for_name, and arrays and images that the
\* kernel reads or writes.
ArgKinds ==
    {"value", "offset", "global_in", "global_out", "image_in", "image_out"}

arg_class(kind) ==
    IF kind \in {"value", "offset"} THEN "ValueArg"
    ELSE IF kind \in {"global_in", "global_out"} THEN "GlobalArg"
    ELSE "ImageArg"

\* The name of the nearest array before position i: the array an offset
\* argument at position i belongs to (None if there is none).
ArrayBefore(kinds, i) ==
    LET js == {j \in 1..(i - 1) : arg_class(kinds[j]) # "ValueArg"}
    IN  IF js = {} THEN None ELSE CHOOSE j \in js : \A k \in js : k <= j

\* impl_arg_info: arguments are named by their position; written stands for
\* `arg.base_name in kernel.get_written_variables()`.
ImplArgInfo(kinds) ==
    [i \in 1..Len(kinds) |->
        [name |-> i,
         arg_class |-> arg_class(kinds[i]),
         offset_for_name |->
             IF kinds[i] = "offset" THEN ArrayBefore(kinds, i) ELSE None,
         written |-> kinds[i] \in {"global_out", "image_out"}]]

\* The argument lists of up to n arguments: an offset argument follows the
\* array it belongs to.
ArgLists(n) ==
    {ImplArgInfo(kinds) : kinds \in
        {s \in Seqs(ArgKinds, n) :
            \A i \in 1..Len(s) :
                s[i] = "offset" => ArrayBefore(s, i) # None}}

\* The entry of ref_arg_data for a value argument (None), and the
\* TestArgInfo of an array; test_name is the argument whose test_* arrays
\* make_args stored on the descriptor (None: the attributes are not set).
NoDesc == [name |-> None, needs_checking |-> FALSE, test_name |-> None]

TestArgInfo(arg) ==
    [name |-> arg.name, needs_checking |-> arg.written, test_name |-> None]

\* What the OpenCL calls of one device answer during argument setup.
ClStatus ==
    {"SUCCESS", "IMAGE_FORMAT_NOT_SUPPORTED", "MEM_OBJECT_ALLOCATION_FAILURE"}

RECURSIVE ref_args_loop(_, _, _)
\* the loop of make_ref_args over the arguments not yet visited
ref_args_loop(rest, cl_status, ref_arg_data) ==
    IF rest = <<>>
    THEN [raised |-> "", ref_arg_data |-> ref_arg_data]
    ELSE LET arg == Head(rest) IN
         IF arg.arg_class = "ValueArg"
         THEN IF arg.offset_for_name # None
              \* continue: nothing is appended
              THEN ref_args_loop(Tail(rest), cl_status, ref_arg_data)
              ELSE ref_args_loop(Tail(rest), cl_status,
                                 Append(ref_arg_data, NoDesc))
         \* cl_array.empty
         ELSE IF cl_status = "MEM_OBJECT_ALLOCATION_FAILURE"
         THEN [raised |-> "cl.RuntimeError: MEM_OBJECT_ALLOCATION_FAILURE",
               ref_arg_data |-> ref_arg_data]
         ELSE IF arg.written /\ arg.arg_class = "ImageArg"
         THEN [raised |-> "RuntimeError: write-mode images not supported",
               ref_arg_data |-> ref_arg_data]
         \* cl.image_from_array
         ELSE IF /\ ~arg.written /\ arg.arg_class = "ImageArg"
                 /\ cl_status = "IMAGE_FORMAT_NOT_SUPPORTED"
         THEN [raised |-> "cl.RuntimeError: IMAGE_FORMAT_NOT_SUPPORTED",
               ref_arg_data |-> ref_arg_data]
         ELSE ref_args_loop(Tail(rest), cl_status,
                            Append(ref_arg_data, TestArgInfo(arg)))

make_ref_args(arg_info, cl_status) == ref_args_loop(arg_info, cl_status, <<>>)

\* The parameters argument as far as make_args depends on it: does it name
\* the offset arguments, and do all arrays evaluate to the same shape.
Parameters == [offsets_given : BOOLEAN, equal_shapes : BOOLEAN]

RECURSIVE args_loop(_, _, _, _)
\* the loop of make_args over zip(impl_arg_info, ref_arg_data), from pair k
args_loop(arg_info, parameters, k, st) ==
    IF k > Len(arg_info) \/ k > Len(st.ref_arg_data)
    THEN st
    ELSE LET arg == arg_info[k]
             arg_desc == st.ref_arg_data[k]
             paired == [st EXCEPT !.pairs = Append(@, <<arg.name, arg_desc.name>>)]
         IN
         IF arg.arg_class = "ValueArg"
         THEN \* parameters[arg.name]
              IF arg.offset_for_name # None /\ ~parameters.offsets_given
              THEN [paired EXCEPT !.raised = "KeyError"]
              ELSE args_loop(arg_info, parameters, k + 1,
                       [paired EXCEPT !.args = Append(@, arg.name)])
         ELSE IF arg.arg_class = "ImageArg"
         THEN IF arg.written
              THEN [paired EXCEPT !.raised = "NotImplementedError"]
              \* arg_desc.ref_shape
              ELSE IF arg_desc.name = None
              THEN [paired EXCEPT !.raised = "AttributeError"]
              \* assert shape == arg_desc.ref_shape
              ELSE IF arg_desc.name # arg.name /\ ~parameters.equal_shapes
              THEN [paired EXCEPT !.raised = "AssertionError"]
              ELSE args_loop(arg_info, parameters, k + 1,
                       [paired EXCEPT !.args = Append(@, arg.name)])
         \* GlobalArg: arg_desc.ref_storage_array, arg_desc.test_... = ...
         ELSE IF arg_desc.name = None
         THEN [paired EXCEPT !.raised = "AttributeError"]
         ELSE args_loop(arg_info, parameters, k + 1,
                  [paired EXCEPT !.args = Append(@, arg.name),
                                 !.ref_arg_data[k].test_name = arg.name])

make_args(arg_info, ref_arg_data, parameters) ==
    args_loop(arg_info, parameters, 1,
        [raised |-> "", args |-> <<>>, ref_arg_data |-> ref_arg_data,
         pairs |-> <<>>])

RECURSIVE check_loop(_, _, _, _)
\* The comparison loop of one warmup round, from descriptor k; fail_at is
\* the descriptor whose comparison check_result rejects (0: none).
check_loop(ref_arg_data, k, fail_at, st) ==
    IF k > Len(ref_arg_data)
    THEN st
    ELSE LET arg_desc == ref_arg_data[k] IN
         IF arg_desc.name = None \/ ~arg_desc.needs_checking
         THEN check_loop(ref_arg_data, k + 1, fail_at, st)
         \* arg_desc.test_storage_array
         ELSE IF arg_desc.test_name = None
         THEN [st EXCEPT !.raised = "AttributeError"]
         ELSE LET compared ==
                      Append(st.compared, <<arg_desc.test_name, arg_desc.name>>)
              IN  IF k = fail_at
                  \* assert error_is_small, error
                  THEN [st EXCEPT !.compared = compared, !.failed = TRUE,
                                  !.raised = "AssertionError"]
                  ELSE check_loop(ref_arg_data, k + 1, fail_at,
                           [st EXCEPT !.compared = compared])

\* The hosts: (platform, device) pairs in the order the loops over
\* cl.get_platforms() and pf.get_devices() visit them.
DeviceKinds ==
    [platform : {"Portable Computing Language", "other"}, cpu : BOOLEAN]

DeviceLists(n) ==
    {[i \in 1..Len(s) |->
        [id |-> i, platform |-> s[i].platform, cpu |-> s[i].cpu]] :
     s \in Seqs(DeviceKinds, n)}

IsUsable(dev) == dev.platform # "Portable Computing Language"

IsCpu(dev) == dev.cpu

IsNotCpu(dev) == ~dev.cpu

\* An enumerator that yields the devices in platform order.
enumerate_in_platform_order(devices) ==
    LET usable == SelectSeq(devices, IsUsable)
    IN  [raised |-> IF usable = <<>>
                    THEN "RuntimeError: no CL device found for test" ELSE "",
         devs |-> usable]

\* _enumerate_cl_devices_for_ref_test: what the generator yields, or what
\* it raises when first asked
enumerate_cl_devices_for_ref_test(devices) ==
    LET usable == SelectSeq(devices, IsUsable)
        cpu_devs == SelectSeq(usable, IsCpu)
        noncpu_devs == SelectSeq(usable, IsNotCpu)
    IN  [raised |-> IF cpu_devs = <<>> /\ noncpu_devs = <<>>
                    THEN "RuntimeError: no CL device found for test" ELSE "",
         devs |-> cpu_devs \o noncpu_devs]

\* The frame of auto_test_vs_ref.  tried, runs, compared, pairs and failed
\* are history: the devices tried, the test kernel invocations, the
\* comparisons made, the pairs zipped and whether a comparison failed.
IdleFrame ==
    [pc |-> "idle", devs |-> <<>>, tried |-> <<>>, ref_errors |-> <<>>,
     found_ref_device |-> FALSE, ref_ran |-> FALSE, ref_arg_data |-> <<>>,
     have_args |-> FALSE, args |-> <<>>, pairs |-> <<>>,
     need_check |-> FALSE, i |-> 0, round |-> 0, compared |-> <<>>,
     failed |-> FALSE, runs |-> 0, raised |-> ""]

AutoIdle ==
    /\ cl_devices = <<>> /\ impl_arg_info = <<>>
    /\ warmup_rounds = 0 /\ do_check = FALSE /\ AUTO_TEST_SKIP_RUN = FALSE
    /\ test_kernels = 0
    /\ at = IdleFrame

\* Hosts of up to MaxDevs devices; a kernel of one argument, run once.
AutoRefInit ==
    /\ cl_devices \in DeviceLists(MaxDevs)
    /\ impl_arg_info \in ArgLists(1)
    /\ warmup_rounds = 1
    /\ do_check \in BOOLEAN
    /\ AUTO_TEST_SKIP_RUN \in BOOLEAN
    /\ test_kernels = 1
    /\ at = [IdleFrame EXCEPT !.pc = "start"]

\* A host with one CPU device; kernels of up to MaxArgs arguments, up to
\* MaxKernels schedules of the test kernel.
AutoTestInit ==
    /\ cl_devices = <<[id |-> 1, platform |-> "other", cpu |-> TRUE]>>
    /\ impl_arg_info \in ArgLists(MaxArgs)
    /\ warmup_rounds \in 0..MaxWarmup
    /\ do_check \in BOOLEAN
    /\ AUTO_TEST_SKIP_RUN \in BOOLEAN
    /\ test_kernels \in 0..MaxKernels
    /\ at = [IdleFrame EXCEPT !.pc = "start"]

autoInputs ==
    <<cl_devices, impl_arg_info, warmup_rounds, do_check, AUTO_TEST_SKIP_RUN,
      test_kernels>>

Raise(frame, exc) == [frame EXCEPT !.pc = "raised", !.raised = exc]

\* for dev in _enumerate_cl_devices_for_ref_test(): the generator starts
Enumerate ==
    /\ at.pc = "start"
    /\ LET e == enumerate_cl_devices_for_ref_test(cl_devices) IN
       at' = IF e.raised # "" THEN Raise(at, e.raised)
             ELSE [at EXCEPT !.pc = "ref", !.devs = e.devs]
    /\ UNCHANGED autoInputs
    /\ UNCHANGED nonAutoVars

\* one pass of the loop over the reference devices (lines 401-469)
TryDevice ==
    /\ at.pc = "ref" /\ at.devs # <<>>
    /\ \E cl_status \in ClStatus :
         LET dev == Head(at.devs)
             r == make_ref_args(impl_arg_info, cl_status)
             tried == [at EXCEPT !.tried = Append(@, dev.id)]
         IN  at' =
               IF r.raised = "cl.RuntimeError: IMAGE_FORMAT_NOT_SUPPORTED"
               THEN [tried EXCEPT !.ref_errors = Append(@, dev.id),
                                  !.devs = Tail(@)]
               ELSE IF r.raised # ""
               THEN Raise(tried, r.raised)
               ELSE [tried EXCEPT !.found_ref_device = TRUE,
                                  !.ref_arg_data = r.ref_arg_data,
                                  !.ref_ran = do_check /\ ~AUTO_TEST_SKIP_RUN,
                                  !.need_check = do_check,
                                  !.pc = "test"]
    /\ UNCHANGED autoInputs
    /\ UNCHANGED nonAutoVars

\* the loop ended without a break: if not found_ref_device: raise
NoDevice ==
    /\ at.pc = "ref" /\ at.devs = <<>>
    /\ ~at.found_ref_device
    /\ at' = Raise(at, "RuntimeError: could not find a suitable device")
    /\ UNCHANGED autoInputs
    /\ UNCHANGED nonAutoVars

\* the head of the loop over test_kernels: compile, make_args the first time
StartKernel ==
    /\ at.pc = "test" /\ at.i < test_kernels
    /\ \E parameters \in Parameters :
         IF at.have_args
         THEN at' = [at EXCEPT !.pc = "warmup", !.round = 0]
         ELSE LET m == make_args(impl_arg_info, at.ref_arg_data, parameters)
              IN  at' = IF m.raised # ""
                        THEN Raise([at EXCEPT !.pairs = m.pairs], m.raised)
                        ELSE [at EXCEPT !.pc = "warmup", !.round = 0,
                                        !.have_args = TRUE,
                                        !.args = m.args,
                                        !.pairs = m.pairs,
                                        !.ref_arg_data = m.ref_arg_data]
    /\ UNCHANGED autoInputs
    /\ UNCHANGED nonAutoVars

\* The descriptors whose comparison can fail.
Checked(ref_arg_data) ==
    {k \in 1..Len(ref_arg_data) : ref_arg_data[k].needs_checking}

\* one warmup round (lines 533-559): run the kernel, compare if need_check
WarmupRound ==
    /\ at.pc = "warmup" /\ at.round < warmup_rounds
    /\ \E ran \in BOOLEAN, fail_at \in {0} \cup Checked(at.ref_arg_data) :
         IF ~AUTO_TEST_SKIP_RUN /\ ~ran
         THEN at' = Raise(at, "the kernel invocation failed")
         ELSE LET run == [at EXCEPT !.runs =
                              IF AUTO_TEST_SKIP_RUN THEN @ ELSE @ + 1,
                                    !.round = @ + 1]
              IN  IF at.need_check /\ ~AUTO_TEST_SKIP_RUN
                  THEN LET c == check_loop(at.ref_arg_data, 1, fail_at,
                                    [raised |-> "", compared |-> <<>>,
                                     failed |-> FALSE])
                           checked == [run EXCEPT
                               !.compared = @ \o c.compared,
                               !.failed = c.failed,
                               !.need_check =
                                   IF c.compared # <<>> THEN FALSE ELSE @]
                       IN  at' = IF c.raised # ""
                                 THEN Raise(checked, c.raised)
                                 ELSE checked
                  ELSE at' = run
    /\ UNCHANGED autoInputs
    /\ UNCHANGED nonAutoVars

\* the timing loop (lines 561-626): timing_rounds = warmup_rounds, and
\* events[-1] of an empty list when no round was timed
Timing ==
    /\ at.pc = "warmup" /\ at.round = warmup_rounds
    /\ \E ran \in BOOLEAN :
         at' = IF warmup_rounds = 0
               THEN Raise(at, "IndexError")
               ELSE IF ~AUTO_TEST_SKIP_RUN /\ ~ran
               THEN Raise(at, "the kernel invocation failed")
               ELSE [at EXCEPT !.runs =
                         IF AUTO_TEST_SKIP_RUN THEN @ ELSE @ + 1,
                               !.i = @ + 1, !.pc = "test"]
    /\ UNCHANGED autoInputs
    /\ UNCHANGED nonAutoVars

\* the loop over test_kernels is exhausted: the function returns
Return ==
    /\ at.pc = "test" /\ at.i = test_kernels
    /\ at' = [at EXCEPT !.pc = "returned"]
    /\ UNCHANGED autoInputs
    /\ UNCHANGED nonAutoVars

AutoNext ==
    Enumerate \/ TryDevice \/ NoDevice \/ StartKernel \/ WarmupRound
    \/ Timing \/ Return

\* The output arguments: the arrays the kernel writes.
OutputArgs ==
    {k \in 1..Len(impl_arg_info) :
        impl_arg_info[k].arg_class # "ValueArg" /\ impl_arg_info[k].written}

\* C36: once make_ref_args has returned, ref_arg_data has one entry per
\* element of impl_arg_info, in the same order (None for a value argument,
\* the argument's own descriptor for an array), offset arguments included;
\* and every pair that make_args zips holds an argument and None or the
\* descriptor of that same argument.
C36_RefArgDataAligned ==
    /\ at.found_ref_device =>
          /\ Len(at.ref_arg_data) = Len(impl_arg_info)
          /\ \A k \in 1..Len(at.ref_arg_data) :
                at.ref_arg_data[k].name =
                    IF impl_arg_info[k].arg_class = "ValueArg" THEN None
                    ELSE impl_arg_info[k].name
    /\ \A k \in 1..Len(at.pairs) :
          at.pairs[k][2] \in {None, at.pairs[k][1]}
    /\ at.have_args => Len(at.pairs) = Len(impl_arg_info)

\* C37: when auto_test_vs_ref has returned from a call with do_check and
\* without AUTO_TEST_SKIP_RUN in which a test kernel ran, the test array of
\* every output argument was compared with that argument's reference array;
\* and a comparison that failed ended the call with the AssertionError.
C37_OutputsComparedBeforeReturn ==
    /\ (at.pc = "returned" /\ do_check /\ ~AUTO_TEST_SKIP_RUN /\ at.i >= 1) =>
          \A k \in OutputArgs : <<k, k>> \in Range(at.compared)
    /\ at.failed => at.pc = "raised" /\ at.raised = "AssertionError"

Front(seq) == SubSeq(seq, 1, Len(seq) - 1)

\* The devices of the host outside the excluded platform.
UsableIds == {k \in 1..Len(cl_devices) : IsUsable(cl_devices[k])}

\* The devices in at.tried are in the enumerator's order: none of the
\* excluded platform, none twice, a non-CPU device only after every CPU
\* device, and within each class in platform order.
TriedInOrder ==
    /\ Range(at.tried) \subseteq UsableIds
    /\ \A k \in 1..Len(at.tried) :
          /\ \A j \in 1..(k - 1) :
                /\ at.tried[j] # at.tried[k]
                /\ cl_devices[at.tried[j]].cpu = cl_devices[at.tried[k]].cpu
                       => at.tried[j] < at.tried[k]
                /\ cl_devices[at.tried[j]].cpu # cl_devices[at.tried[k]].cpu
                       => cl_devices[at.tried[j]].cpu
          /\ \A d \in UsableIds :
                (d \notin Range(SubSeq(at.tried, 1, k))) =>
                    \/ ~cl_devices[d].cpu /\ cl_devices[at.tried[k]].cpu
                    \/ /\ cl_devices[d].cpu = cl_devices[at.tried[k]].cpu
                       /\ d > at.tried[k]

\* Where the reference loop stands, by outcome.
RefLoopOutcome ==
    /\ TriedInOrder
    \* every device tried before the last one failed with
    \* IMAGE_FORMAT_NOT_SUPPORTED and was recorded
    /\ at.pc = "ref" => at.ref_errors = at.tried /\ at.runs = 0
    /\ at.found_ref_device =>
          at.tried # <<>> /\ at.ref_errors = Front(at.tried)
    \* any other error leaves at once, from the device it happened on
    /\ at.raised \in {"cl.RuntimeError: MEM_OBJECT_ALLOCATION_FAILURE",
                      "RuntimeError: write-mode images not supported"} =>
          /\ at.tried # <<>> /\ at.ref_errors = Front(at.tried)
          /\ ~at.found_ref_device /\ at.runs = 0
    \* no device succeeded, or none exists
    /\ at.raised = "RuntimeError: could not find a suitable device" =>
          /\ Range(at.tried) = UsableIds /\ at.ref_errors = at.tried
          /\ ~at.found_ref_device /\ at.runs = 0 /\ ~at.have_args
    /\ at.raised = "RuntimeError: no CL device found for test" =>
          /\ UsableIds = {} /\ at.tried = <<>>
          /\ ~at.found_ref_device /\ at.runs = 0 /\ ~at.have_args
    \* the test kernel is only reached with a reference device
    /\ (at.pc \in {"test", "warmup", "returned"} \/ at.runs > 0
          \/ at.have_args) => at.found_ref_device
    /\ (at.pc = "raised" /\ ~at.found_ref_device) =>
          at.raised \in
              {"cl.RuntimeError: MEM_OBJECT_ALLOCATION_FAILURE",
               "RuntimeError: write-mode images not supported",
               "RuntimeError: could not find a suitable device",
               "RuntimeError: no CL device found for test"}

\* C38: the reference devices are tried in the enumerator's order (CPU
\* devices first, the excluded platform never); a device failing with
\* IMAGE_FORMAT_NOT_SUPPORTED is recorded and the next one is tried, any
\* other error propagates at once, the first device that succeeds is used
\* and no later one is tried, and with no device succeeding (or none
\* existing) a RuntimeError is raised before any test kernel is run.
C38_ReferenceDeviceLoop ==
    /\ []RefLoopOutcome
    /\ [][/\ at.found_ref_device =>
               at'.found_ref_device /\ at'.tried = at.tried
          /\ at.pc = "raised" => at' = at]_vars

\* C38 witness: on a host with three usable devices, a non-CPU one listed
\* first, the CPU device was tried first and failed with
\* IMAGE_FORMAT_NOT_SUPPORTED, the first non-CPU device succeeded, the
\* last device was never tried, and the call returned.
C38_Witness ==
    /\ at.pc = "returned"
    /\ Len(cl_devices) = 3 /\ UsableIds = {1, 2, 3}
    /\ ~cl_devices[1].cpu /\ cl_devices[2].cpu /\ ~cl_devices[3].cpu
    /\ at.tried = <<2, 1>> /\ at.ref_errors = <<2>>
    /\ at.found_ref_device /\ at.runs > 0

(***************************************************************************)
(* Specifications: one per component                                       *)
(***************************************************************************)

HashNext == HashBoth

InitHash == HashInit /\ TreeIdle /\ EqIdle /\ LazyIdle /\ AugIdle /\ MemoIdle
    /\ OptIdle /\ CacheIdle /\ RaceIdle /\ AutoIdle

SpecHash == InitHash /\ [][HashNext]_vars

TreeNext == AddNode \/ RenameNode \/ MoveNode

InitLazy == LazyInit /\ HashIdle /\ TreeIdle /\ EqIdle /\ AugIdle /\ MemoIdle
    /\ OptIdle /\ CacheIdle /\ RaceIdle /\ AutoIdle

SpecLazy == InitLazy /\ [][LazyNext]_vars

InitAug == AugInit /\ HashIdle /\ TreeIdle /\ EqIdle /\ LazyIdle /\ MemoIdle
    /\ OptIdle /\ CacheIdle /\ RaceIdle /\ AutoIdle

SpecAug == InitAug /\ [][AugNext]_vars

InitMemo ==
    MemoInit /\ HashIdle /\ TreeIdle /\ EqIdle /\ LazyIdle /\ AugIdle
    /\ OptIdle /\ CacheIdle /\ RaceIdle /\ AutoIdle

InitOpt ==
    OptInit /\ HashIdle /\ TreeIdle /\ EqIdle /\ LazyIdle /\ AugIdle
    /\ MemoIdle /\ CacheIdle /\ RaceIdle /\ AutoIdle

SpecOpt == InitOpt /\ [][OptNext]_vars

InitCache ==
    CacheInit /\ HashIdle /\ TreeIdle /\ EqIdle /\ LazyIdle /\ AugIdle
    /\ MemoIdle /\ OptIdle /\ RaceIdle /\ AutoIdle

SpecCache == InitCache /\ [][CacheNext]_vars

SpecMemo == InitMemo /\ [][MemoNext]_vars

InitRace ==
    RaceInit /\ HashIdle /\ TreeIdle /\ EqIdle /\ LazyIdle /\ AugIdle
    /\ MemoIdle /\ OptIdle /\ CacheIdle /\ AutoIdle

SpecRace == InitRace /\ [][RaceNext]_vars

InitTree == TreeInit /\ HashIdle /\ EqIdle /\ LazyIdle /\ AugIdle /\ MemoIdle
    /\ OptIdle /\ CacheIdle /\ RaceIdle /\ AutoIdle

InitEqKey == EqInit /\ HashIdle /\ TreeIdle /\ LazyIdle /\ AugIdle /\ MemoIdle
    /\ OptIdle /\ CacheIdle /\ RaceIdle /\ AutoIdle

SpecEqKey == InitEqKey /\ [][EqNext]_vars

InitEqFields ==
    EqFieldsInit /\ HashIdle /\ TreeIdle /\ LazyIdle /\ AugIdle /\ MemoIdle
    /\ OptIdle /\ CacheIdle /\ RaceIdle /\ AutoIdle

SpecEqFields == InitEqFields /\ [][EqFieldsNext]_vars

SpecTree == InitTree /\ [][TreeNext]_vars

InitAutoRef ==
    AutoRefInit /\ HashIdle /\ TreeIdle /\ EqIdle /\ LazyIdle /\ AugIdle
    /\ MemoIdle /\ OptIdle /\ CacheIdle /\ RaceIdle

SpecAutoRef == InitAutoRef /\ [][AutoNext]_vars

InitAutoTest ==
    AutoTestInit /\ HashIdle /\ TreeIdle /\ EqIdle /\ LazyIdle /\ AugIdle
    /\ MemoIdle /\ OptIdle /\ CacheIdle /\ RaceIdle

SpecAutoTest == InitAutoTest /\ [][AutoNext]_vars

=============================================================================
